---- MODULE Spec2Model ----
(***************************************************************************)
(* WhatsApp <-> Chatwoot bridge (pkg/chatwoot Service, the Chatwoot        *)
(* webhook handler, the configuration surface) and the outbound webhook    *)
(* delivery engine (callHookWithHmac / callHookFileWithHmac) with its      *)
(* dead-letter publisher.                                                  *)
(*                                                                         *)
(* Strings whose characters the code inspects (JIDs, phone numbers, source *)
(* ids, message ids, cache keys) are sequences of one-character strings;   *)
(* opaque texts (message bodies, captions, URLs) are sequences of          *)
(* fragments, so that concatenation is \o and the empty string is <<>>.    *)
(***************************************************************************)
EXTENDS Integers, Sequences, FiniteSets, TLC

\* ------------------------------------------------------------------------
\* Bounds of the model
\* ------------------------------------------------------------------------
\* concurrent HandleIncomingMessage calls (one goroutine per inbound event)
NumTasks == 2
\* concurrent HandleChatwootWebhook requests
NumHooks == 1
\* sequential HandleIncomingMessage calls on one chat
NumCalls == 3
\* process restarts
MaxRestarts == 1
\* largest configured webhookRetryCount explored
MaxRetryCount == 4
\* largest configured webhookRetryDelaySeconds explored
MaxDelaySeconds == 2

Tasks == 1..NumTasks
SeqTasks == 1..NumCalls
TaskIds == Tasks \cup SeqTasks
Hooks == 1..NumHooks

\* ------------------------------------------------------------------------
\* String helpers (Go strings package), on sequences of characters
\* ------------------------------------------------------------------------
Digits == {"0", "1", "2", "3", "4", "5", "6", "7", "8", "9"}

\* strings.HasPrefix
HasPrefix(s, p) == Len(s) >= Len(p) /\ SubSeq(s, 1, Len(p)) = p

\* strings.TrimPrefix
TrimPrefix(s, p) == IF HasPrefix(s, p) THEN SubSeq(s, Len(p) + 1, Len(s)) ELSE s

\* index of the first occurrence of character c in s, Len(s)+1 when absent
RECURSIVE IndexFrom(_, _, _)
IndexFrom(s, c, i) ==
    IF i > Len(s) THEN Len(s) + 1
    ELSE IF s[i] = c THEN i
    ELSE IndexFrom(s, c, i + 1)

\* strings.Split(s, c)[0]
SplitFirst(s, c) == SubSeq(s, 1, IndexFrom(s, c, 1) - 1)

\* the strings.Map call of formatToE164: keep '0'..'9', drop the rest
KeepDigits(s) == SelectSeq(s, LAMBDA ch : ch \in Digits)

\* formatToE164
formatToE164(phone) == <<"+">> \o KeepDigits(TrimPrefix(phone, <<"+">>))

\* types.DefaultUserServer / types.GroupServer (whatsmeow)
DefaultUserServer == <<"s", ".", "w", "h", "a", "t", "s", "a", "p", "p", ".", "n", "e", "t">>
GroupServer == <<"g", ".", "u", "s">>

\* types.NewJID(user, server).String()
NewJID(user, server) == user \o <<"@">> \o server

\* fmt.Sprintf("%s:%s", userID, chatJID)
CacheKey(userID, chatJID) == userID \o <<":">> \o chatJID

\* the reserved source-id prefix of bridge-created messages
WAIDPrefix == <<"W", "A", "I", "D", ":">>

\* fmt.Sprintf("WAID:%s", evt.Info.ID)
MessageSourceID(id) == WAIDPrefix \o id

\* fmt.Sprintf("wa:%s", chatJID)
ConversationSourceID(chatJID) == <<"w", "a", ":">> \o chatJID

\* ------------------------------------------------------------------------
\* Inbound events
\* ------------------------------------------------------------------------
U1 == <<"u", "1">>
M1 == <<"m", "1">>
M2 == <<"m", "2">>
W1 == <<"w", "1">>
Phone1 == <<"5", "5", "1">>
Chat1 == NewJID(Phone1, DefaultUserServer)

\* an absent (nil) and a present media sub-message
NoMedia == [present |-> FALSE, caption |-> <<>>]
SomeMedia(caption) == [present |-> TRUE, caption |-> caption]

EmptyMessage ==
    [protocol |-> FALSE, reaction |-> FALSE, pollCreation |-> FALSE,
     pollUpdate |-> FALSE, keepInChat |-> FALSE,
     conversation |-> <<>>, extendedText |-> NoMedia,
     image |-> NoMedia, video |-> NoMedia, audio |-> NoMedia, document |-> NoMedia,
     sticker |-> FALSE]

TextMessage(txt) == [EmptyMessage EXCEPT !.conversation = txt]

MediaValues == {NoMedia, SomeMedia(<<"cap">>)}

\* GetExtendedTextMessage(): nil, present with empty text, present with text
\* (the text is carried in the caption field of the sub-message record)
ExtendedTextValues == {NoMedia, SomeMedia(<<>>), SomeMedia(<<"Ext">>)}

\* every combination of the message fields the bridge looks at
AllMessages ==
    [protocol : BOOLEAN, reaction : BOOLEAN, pollCreation : BOOLEAN,
     pollUpdate : BOOLEAN, keepInChat : BOOLEAN,
     conversation : {<<>>, <<"Hello">>}, extendedText : ExtendedTextValues,
     image : MediaValues, video : MediaValues, audio : MediaValues,
     document : MediaValues, sticker : BOOLEAN]

Event(id, chat, fromMe, msg) ==
    [id |-> id, chat |-> chat, sender |-> chat, isGroup |-> FALSE,
     isFromMe |-> fromMe, pushName |-> <<>>, msg |-> msg]

Call(user, evt) == [user |-> user, evt |-> evt]

\* shouldSkipMessage
hasText(m) ==
    m.conversation # <<>> \/ m.extendedText.caption # <<>>

hasMedia(m) ==
    \/ m.image.present \/ m.video.present \/ m.audio.present
    \/ m.document.present \/ m.sticker

shouldSkipNoPollUpdate(m) ==
    \/ m.protocol
    \/ m.reaction
    \/ m.pollCreation
    \/ m.keepInChat
    \/ (~hasText(m) /\ ~hasMedia(m))

shouldSkipMessage(m) ==
    \/ m.protocol
    \/ m.reaction
    \/ m.pollCreation \/ m.pollUpdate
    \/ m.keepInChat
    \/ (~hasText(m) /\ ~hasMedia(m))

\* sync.Map.LoadOrStore on the dedupe cache: <<loaded, cache'>>
LoadOrStoreNeverLoaded(cache, id, ts) ==
    <<FALSE, [k \in DOMAIN cache \cup {id} |-> IF k = id THEN ts ELSE cache[k]]>>

LoadOrStore(cache, id, ts) ==
    IF id \in DOMAIN cache
    THEN <<TRUE, cache>>
    ELSE <<FALSE, [k \in DOMAIN cache \cup {id} |-> IF k = id THEN ts ELSE cache[k]]>>

\* sync.Map.Store
MapStore(m, k, v) == [x \in DOMAIN m \cup {k} |-> IF x = k THEN v ELSE m[x]]

\* ------------------------------------------------------------------------
\* State
\* ------------------------------------------------------------------------
VARIABLES
    config,             \* chatwoot_config rows: user -> [exists, enabled, inboxID]
    echoes,             \* inbound calls (user, event) that echo a bridge-sent message
    now,                \* wall clock, in minutes
    tickerStart,        \* time at which NewService started the cleanup ticker
    lastPass,           \* the tick that cleanupDedupeCache received last (tickerStart: none)
    passAt,             \* cleanupDedupeCache: time.Now() taken by the running pass (0: none runs)
    passTodo,           \* cleanupDedupeCache: keys the running Range has still to visit
    epoch,              \* number of process restarts so far
    dedupeCache,        \* Service.dedupeCache: message id -> time first seen
    conversationCache,  \* Service.conversationCache: cache key -> conversation id
    dbConversations,    \* chatwoot_conversations rows: <<user, chat>> -> row
    cwContacts,         \* remote contacts created or known
    cwConversations,    \* remote conversations, in creation order
    cwMessages,         \* remote messages, in creation order
    pc,                 \* per inbound task: position in HandleIncomingMessage
    call,               \* per inbound task: the (user, event) being handled
    contactID,          \* per inbound task: local contactID
    conversationID,     \* per inbound task: local conversationID
    result,             \* per inbound task: "none", "ok" (nil) or "error"
    tconfig,            \* per inbound task: the chatwoot_config row getConfig returned
    tepoch,             \* per inbound task: the process incarnation that ran it
    seenAt,             \* per inbound task: the time.Now() handed to LoadOrStore
    loaded,             \* per inbound task: "loaded" result of the dedupe LoadOrStore
    calls,              \* per inbound task: remote and store calls made, in order
    messageDedupeCache, \* package-level messageDedupeCache of the webhook handler
    cleanupLoops,       \* live cleanupDedupeCache goroutines started by NewService
    waSent,             \* WhatsApp messages sent by the reverse path, in order
    hpc,                \* per webhook request: position in HandleChatwootWebhook
    hreq,               \* per webhook request: the request being served
    huser,              \* per webhook request: resolved userID
    hqueue,             \* per webhook request: texts still to send
    hresp,              \* per webhook request: resp.ID of the last send
    hstatus,            \* per webhook request: HTTP status written (0: none yet)
    hbody,              \* per webhook request: "status"/"error" value written
    hlog,               \* per webhook request: side effects made, in order
    settings,           \* webhookRetryEnabled, webhookRetryCount,
                        \* webhookRetryDelaySeconds, WEBHOOK_FORMAT
    dpc,                \* delivery call: position in callHook(File)WithHmac
    dreq,               \* delivery call: payload, signing key
    attempt,            \* delivery call: loop variable attempt
    maxRetries,         \* delivery call: local maxRetries
    lastError,          \* delivery call: local lastError ("nil" when nil)
    body,               \* delivery call: local body
    dlog,               \* delivery call: sleeps and POSTs made, in order
    deadLetters,        \* records handed to PublishDataErrorToQueue / PublishFileErrorToQueue
    dret,               \* delivery call: "none", or "void" once returned
    fpc,                \* file delivery call: position in callHookFileWithHmac
    freq,               \* file delivery call: payload, signing key
    fattempt,           \* file delivery call: loop variable attempt
    fmaxRetries,        \* file delivery call: local maxRetries
    flastError,         \* file delivery call: local lastError ("nil" when nil)
    finalPayload,       \* file delivery call: local finalPayload
    flog,               \* file delivery call: sleeps and POSTs made, in order
    fret,               \* file delivery call: "none", "nil" or "error" once returned
    rabbitEnabled,      \* package-level rabbitEnabled
    errorQueue,         \* messages published to the webhook error queue, in order
    plog,               \* PublishToRabbit calls of the hand-offs: caller, rabbitEnabled as read, result
    rabbitURL,          \* whether RABBITMQ_URL is set
    rpc,                \* InitRabbitMQ: position ("idle" before the call)
    rattempt,           \* InitRabbitMQ: loop variable attempt
    rlog,               \* InitRabbitMQ: connection attempts and sleeps made, in order
    rabbitConn,         \* package-level rabbitConn: 0 for nil, else the connection's number
    rabbitChannel,      \* package-level rabbitChannel: 0 for nil, else its connection's number
    mpc,                \* handleConnectionErrors goroutines: position of each
    mattempt,           \* handleConnectionErrors goroutines: loop variable attempt
    closes,             \* unexpected connection closes notified so far
    ppc,                \* PublishToRabbit call of each caller: position
    penabled,           \* PublishToRabbit call of each caller: rabbitEnabled as read
    pubs,               \* PublishToRabbit calls of other goroutines begun so far
    usedChannels,       \* values of rabbitChannel that PublishToRabbit calls dereferenced
    apiResp,            \* configuration surface: the last response written
    inboxLog,           \* remote side: the CreateInbox calls made, with their outcomes
    cpc,                \* per SetChatwootConfig request: position
    creq,               \* per SetChatwootConfig request: the decoded body
    cexists,            \* per SetChatwootConfig request: local configExists
    cinbox,             \* per SetChatwootConfig request: local inboxID (0: not valid)
    srun,               \* stdio server: "reading", or what Start returned ("nil", "error")
    sline,              \* stdio server: the last line handed to handleRequest
    sreply,             \* stdio server: what the wrapped HTTP handler recorded
    sout,               \* stdio server: the last response line written to stdout
    swritten            \* stdio server: number of response lines written

bridgeVars == <<config, echoes, now, tickerStart, lastPass, passAt, passTodo, epoch, dedupeCache, conversationCache, dbConversations,
                cwContacts, cwConversations, cwMessages>>
taskVars == <<pc, call, tconfig, contactID, conversationID, result, tepoch, seenAt, loaded, calls>>
hookVars == <<messageDedupeCache, cleanupLoops, waSent,
              hpc, hreq, huser, hqueue, hresp, hstatus, hbody, hlog>>

dataVars == <<dpc, dreq, attempt, maxRetries, lastError, body, dlog, dret>>
fileVars == <<fpc, freq, fattempt, fmaxRetries, flastError, finalPayload, flog, fret>>
queueVars == <<deadLetters, rabbitEnabled, errorQueue, plog>>
rabbitVars == <<rabbitURL, rpc, rattempt, rlog, rabbitConn, rabbitChannel, mpc, mattempt,
                closes, ppc, penabled, pubs, usedChannels>>

deliveryVars == <<settings, dataVars, fileVars, queueVars, rabbitVars>>

stdioVars == <<srun, sline, sreply, sout, swritten>>

setVars == <<cpc, creq, cexists, cinbox>>

surfaceVars == <<apiResp, inboxLog, setVars, stdioVars>>

outsideBridge == <<hookVars, deliveryVars, surfaceVars>>

vars == <<bridgeVars, taskVars, hookVars, deliveryVars, surfaceVars>>

NoCall == Call(<<>>, Event(<<>>, <<>>, FALSE, EmptyMessage))

\* the remote API token of the tenant in the rows the bridge starts with
ApiToken == <<"a", "b", "b", "a", "b", "a">>

\* a chatwoot_config row (exists = FALSE: sql.ErrNoRows; inboxID = 0: NULL)
NoConfig == [exists |-> FALSE, enabled |-> FALSE, inboxID |-> 0, token |-> <<>>]
ConfigValues ==
    {NoConfig} \cup
    [exists : {TRUE}, enabled : BOOLEAN, inboxID : {0, 1}, token : {ApiToken}]

EnabledConfig == [exists |-> TRUE, enabled |-> TRUE, inboxID |-> 1, token |-> ApiToken]

\* ------------------------------------------------------------------------
\* Remote ticketing API and the persistent store
\* ------------------------------------------------------------------------
\* FindContactByPhone: the first match of the search, 0 when the payload is empty
FindContactByPhone(contacts, phone) ==
    LET hits == {c \in contacts : c.phone = phone} IN
    IF hits = {} THEN 0
    ELSE (CHOOSE c \in hits : \A d \in hits : c.id <= d.id).id

\* CreateContact: the contact the remote side adds
NewContact(contacts, phone, identifier) ==
    [id |-> Cardinality(contacts) + 1, phone |-> phone, identifier |-> identifier]

\* a chatwoot_conversations row
ConversationRow(conv, contact, inbox) ==
    [conversationID |-> conv, contactID |-> contact, inboxID |-> inbox]

\* ids the remote side gives to conversations it creates
FirstRemoteConversationID == 100

\* ------------------------------------------------------------------------
\* HandleIncomingMessage
\* ------------------------------------------------------------------------
Finish(t, r) ==
    /\ pc' = [pc EXCEPT ![t] = "done"]
    /\ result' = [result EXCEPT ![t] = r]

Goto(t, label) ==
    /\ pc' = [pc EXCEPT ![t] = label]
    /\ UNCHANGED result

Log(t, ops) == calls' = [calls EXCEPT ![t] = @ \o ops]

\* the log entries of one remote or store call: its name, then "failed" when it
\* returned an error
Outcome(op, ok) == IF ok THEN <<op>> ELSE <<op, "failed">>

\* step 1: a call (from the pool S of deliverable events, or an echo) arrives and
\* does the atomic LoadOrStore on the dedupe cache
HIM_DedupCheck(t, S) ==
    /\ pc[t] = "idle"
    /\ \E c \in S \cup echoes :
        LET r == LoadOrStore(dedupeCache, c.evt.id, now) IN
        /\ call' = [call EXCEPT ![t] = c]
        /\ dedupeCache' = r[2]
        /\ loaded' = [loaded EXCEPT ![t] = r[1]]
        /\ tepoch' = [tepoch EXCEPT ![t] = epoch]
        /\ seenAt' = [seenAt EXCEPT ![t] = now]
        /\ IF r[1] THEN Finish(t, "ok") ELSE Goto(t, "filter")
    /\ UNCHANGED <<config, echoes, now, tickerStart, lastPass, passAt, passTodo, epoch, conversationCache, dbConversations,
                   cwContacts, cwConversations, cwMessages,
                   tconfig, contactID, conversationID, calls, outsideBridge>>

\* step 3 without the test of config.Enabled
ConfigVerdictNoEnabledTest(cfg, dbOk) ==
    IF ~dbOk THEN "error"
    ELSE IF ~cfg.exists THEN "skip"
    ELSE "proceed"

\* step 3: what HandleIncomingMessage does with the result of getConfig; dbOk is
\* false when the query failed with anything but sql.ErrNoRows
ConfigVerdict(cfg, dbOk) ==
    IF ~dbOk THEN "error"
    ELSE IF ~cfg.exists THEN "skip"
    ELSE IF ~cfg.enabled THEN "skip"
    ELSE "proceed"

\* steps 2 and 3: noise filter, then getConfig; the row read is the call's local
\* config for the rest of the call
HIM_FilterAndLoadConfig(t) ==
    /\ pc[t] = "filter"
    /\ IF shouldSkipMessage(call[t].evt.msg)
       THEN /\ Finish(t, "ok")
            /\ UNCHANGED <<calls, tconfig>>
       ELSE \E dbOk \in BOOLEAN :
            LET verdict == ConfigVerdict(config[call[t].user], dbOk) IN
            /\ tconfig' = IF dbOk THEN [tconfig EXCEPT ![t] = config[call[t].user]]
                          ELSE tconfig
            /\ IF verdict = "error" THEN Finish(t, "error")
               ELSE IF verdict = "skip" THEN Finish(t, "ok")
               ELSE Goto(t, "findContact")
            /\ Log(t, Outcome("db_config_get", dbOk))
    /\ UNCHANGED <<bridgeVars, call, contactID, conversationID, tepoch, seenAt, loaded, outsideBridge>>

\* senderJID as HandleIncomingMessage derives it
SenderJID(e) == IF e.isGroup THEN e.sender ELSE e.chat

\* phoneNumber := formatToE164(strings.Split(senderJID, "@")[0])
PhoneNumber(e) == formatToE164(SplitFirst(SenderJID(e), "@"))

\* msgType with the two directions swapped
MsgTypeSwapped(e) == IF e.isFromMe THEN "incoming" ELSE "outgoing"

\* msgType from IsFromMe
MsgType(e) == IF e.isFromMe THEN "outgoing" ELSE "incoming"

\* ensureContact, first half: FindContactByPhone; any error counts as a miss
HIM_FindContact(t) ==
    /\ pc[t] = "findContact"
    /\ \E ok \in BOOLEAN :
        LET found == IF ok THEN FindContactByPhone(cwContacts, PhoneNumber(call[t].evt))
                     ELSE 0
        IN
        /\ IF found # 0
           THEN /\ contactID' = [contactID EXCEPT ![t] = found]
                /\ Goto(t, "convMem")
           ELSE /\ UNCHANGED contactID
                /\ IF tconfig[t].inboxID = 0
                   THEN Finish(t, "error")
                   ELSE Goto(t, "createContact")
        /\ Log(t, Outcome("contact_search", ok))
    /\ UNCHANGED <<bridgeVars, call, conversationID, tconfig, tepoch, seenAt, loaded, outsideBridge>>

\* ensureContact, second half: CreateContact
HIM_CreateContact(t) ==
    /\ pc[t] = "createContact"
    /\ \E ok \in BOOLEAN :
        /\ IF ok
           THEN LET c == NewContact(cwContacts, PhoneNumber(call[t].evt),
                                    SenderJID(call[t].evt)) IN
                /\ cwContacts' = cwContacts \cup {c}
                /\ contactID' = [contactID EXCEPT ![t] = c.id]
                /\ Goto(t, "convMem")
           ELSE /\ UNCHANGED <<cwContacts, contactID>>
                /\ Finish(t, "error")
        /\ Log(t, Outcome("contact_create", ok))
    /\ UNCHANGED <<config, echoes, now, tickerStart, lastPass, passAt, passTodo, epoch, dedupeCache, conversationCache, dbConversations,
                   cwConversations, cwMessages, call, conversationID, tconfig, tepoch, seenAt, loaded, outsideBridge>>

TaskKey(t) == CacheKey(call[t].user, call[t].evt.chat)
TaskRow(t) == <<call[t].user, call[t].evt.chat>>

\* ensureConversation without the store lookup's row test: every lookup is a miss
EC_StoreLookupAlwaysMiss(t) ==
    /\ pc[t] = "convDb"
    /\ \E dbOk \in BOOLEAN :
        /\ IF ~dbOk THEN Finish(t, "error") ELSE Goto(t, "convCreate")
        /\ Log(t, Outcome("db_conversation_get", dbOk))
    /\ UNCHANGED <<bridgeVars, call, contactID, conversationID, tconfig, tepoch, seenAt, loaded,
                   outsideBridge>>

\* ensureConversation with a store hit that is not copied to the memory tier
EC_StoreLookupNoCache(t) ==
    /\ pc[t] = "convDb"
    /\ \E dbOk \in BOOLEAN :
        /\ IF ~dbOk
           THEN /\ Finish(t, "error")
                /\ UNCHANGED conversationID
           ELSE IF TaskRow(t) \in DOMAIN dbConversations
           THEN /\ conversationID' = [conversationID EXCEPT ![t] =
                       dbConversations[TaskRow(t)].conversationID]
                /\ Goto(t, "deliver")
           ELSE /\ Goto(t, "convCreate")
                /\ UNCHANGED conversationID
        /\ Log(t, Outcome("db_conversation_get", dbOk))
    /\ UNCHANGED <<bridgeVars, call, contactID, tconfig, tepoch, seenAt, loaded, outsideBridge>>

\* ensureConversation without the final conversationCache.Store
EC_StoreMemorySkipped(t) ==
    /\ pc[t] = "convStore"
    /\ Goto(t, "deliver")
    /\ UNCHANGED <<bridgeVars, call, contactID, conversationID, tconfig, tepoch, seenAt, loaded, calls,
                   outsideBridge>>

\* ensureConversation: conversationCache.Load
EC_MemoryLookup(t) ==
    /\ pc[t] = "convMem"
    /\ IF TaskKey(t) \in DOMAIN conversationCache
       THEN /\ conversationID' = [conversationID EXCEPT ![t] = conversationCache[TaskKey(t)]]
            /\ Goto(t, "deliver")
       ELSE /\ UNCHANGED conversationID
            /\ Goto(t, "convDb")
    /\ UNCHANGED <<bridgeVars, call, contactID, tconfig, tepoch, seenAt, loaded, calls, outsideBridge>>

\* ensureConversation: db.Get on chatwoot_conversations, caching a hit in memory
EC_StoreLookup(t) ==
    /\ pc[t] = "convDb"
    /\ \E dbOk \in BOOLEAN :
        /\ IF ~dbOk
           THEN /\ Finish(t, "error")
                /\ UNCHANGED <<conversationCache, conversationID>>
           ELSE IF TaskRow(t) \in DOMAIN dbConversations
           THEN /\ conversationID' = [conversationID EXCEPT ![t] =
                                          dbConversations[TaskRow(t)].conversationID]
                /\ UNCHANGED conversationCache
                /\ Goto(t, "convHit")
           ELSE /\ Goto(t, "convCreate")
                /\ UNCHANGED <<conversationCache, conversationID>>
        /\ Log(t, Outcome("db_conversation_get", dbOk))
    /\ UNCHANGED <<config, echoes, now, tickerStart, lastPass, passAt, passTodo, epoch, dedupeCache, dbConversations,
                   cwContacts, cwConversations, cwMessages, call, contactID, tconfig, tepoch, seenAt, loaded,
                   outsideBridge>>

\* ensureConversation: the row that was read is stored in the memory cache
EC_CacheHit(t) ==
    /\ pc[t] = "convHit"
    /\ conversationCache' = MapStore(conversationCache, TaskKey(t), conversationID[t])
    /\ Goto(t, "deliver")
    /\ UNCHANGED <<config, echoes, now, tickerStart, lastPass, passAt, passTodo, epoch, dedupeCache, dbConversations,
                   cwContacts, cwConversations, cwMessages,
                   call, contactID, conversationID, tconfig, tepoch, seenAt, loaded, calls, outsideBridge>>

\* ensureConversation: client.CreateConversation
EC_CreateRemote(t) ==
    /\ pc[t] = "convCreate"
    /\ \E ok \in BOOLEAN :
        /\ IF ok
           THEN /\ cwConversations' = Append(cwConversations,
                       [id |-> FirstRemoteConversationID + Len(cwConversations),
                        contactID |-> contactID[t],
                        inboxID |-> tconfig[t].inboxID,
                        sourceID |-> ConversationSourceID(call[t].evt.chat)])
                /\ conversationID' = [conversationID EXCEPT ![t] =
                       FirstRemoteConversationID + Len(cwConversations)]
                /\ Goto(t, "convPersist")
           ELSE /\ UNCHANGED <<cwConversations, conversationID>>
                /\ Finish(t, "error")
        /\ Log(t, Outcome("conversation_create", ok))
    /\ UNCHANGED <<config, echoes, now, tickerStart, lastPass, passAt, passTodo, epoch, dedupeCache, conversationCache, dbConversations,
                   cwContacts, cwMessages, call, contactID, tconfig, tepoch, seenAt, loaded, outsideBridge>>

\* the INSERT step with a failed INSERT returned to the caller as an error
EC_PersistAbortOnError(t) ==
    /\ pc[t] = "convPersist"
    /\ \E dbOk \in BOOLEAN :
        LET inserted == dbOk /\ TaskRow(t) \notin DOMAIN dbConversations IN
        /\ IF inserted
           THEN /\ dbConversations' = MapStore(dbConversations, TaskRow(t),
                      ConversationRow(conversationID[t], contactID[t],
                                      tconfig[t].inboxID))
                /\ Goto(t, "convStore")
           ELSE /\ UNCHANGED dbConversations
                /\ Finish(t, "error")
        /\ Log(t, Outcome("db_conversation_insert", inserted))
    /\ UNCHANGED <<config, echoes, now, tickerStart, lastPass, passAt, passTodo, epoch, dedupeCache, conversationCache,
                   cwContacts, cwConversations, cwMessages,
                   call, contactID, conversationID, tconfig, tepoch, seenAt, loaded, outsideBridge>>

\* ensureConversation: INSERT INTO chatwoot_conversations; a failure (store error or
\* the unique (user_id, chat_jid) constraint) is logged and ignored
EC_Persist(t) ==
    /\ pc[t] = "convPersist"
    /\ \E dbOk \in BOOLEAN :
        LET inserted == dbOk /\ TaskRow(t) \notin DOMAIN dbConversations IN
        /\ IF inserted
           THEN dbConversations' = MapStore(dbConversations, TaskRow(t),
                   ConversationRow(conversationID[t], contactID[t],
                                   tconfig[t].inboxID))
           ELSE UNCHANGED dbConversations
        /\ Log(t, Outcome("db_conversation_insert", inserted))
    /\ Goto(t, "convStore")
    /\ UNCHANGED <<config, echoes, now, tickerStart, lastPass, passAt, passTodo, epoch, dedupeCache, conversationCache,
                   cwContacts, cwConversations, cwMessages,
                   call, contactID, conversationID, tconfig, tepoch, seenAt, loaded, outsideBridge>>

\* ensureConversation: conversationCache.Store
EC_StoreMemory(t) ==
    /\ pc[t] = "convStore"
    /\ conversationCache' = MapStore(conversationCache, TaskKey(t), conversationID[t])
    /\ Goto(t, "deliver")
    /\ UNCHANGED <<config, echoes, now, tickerStart, lastPass, passAt, passTodo, epoch, dedupeCache, dbConversations,
                   cwContacts, cwConversations, cwMessages,
                   call, contactID, conversationID, tconfig, tepoch, seenAt, loaded, calls, outsideBridge>>

\* textContent of sendMessageToChatwoot
TextContent(m) ==
    IF m.conversation = <<>> /\ m.extendedText.present
    THEN m.extendedText.caption
    ELSE m.conversation

\* the media branch sendMessageToChatwoot takes, "none" when it takes none
MediaKind(m) ==
    IF m.image.present THEN "image"
    ELSE IF m.video.present THEN "video"
    ELSE IF m.audio.present THEN "audio"
    ELSE IF m.document.present THEN "document"
    ELSE "none"

\* caption handed to sendMediaMessage
MediaCaption(m) ==
    IF m.image.present THEN m.image.caption
    ELSE IF m.video.present THEN m.video.caption
    ELSE IF m.audio.present THEN <<>>
    ELSE m.document.caption

RemoteMessage(t, kind, content) ==
    [conversationID |-> conversationID[t], type |-> MsgType(call[t].evt),
     content |-> content, sourceID |-> MessageSourceID(call[t].evt.id), kind |-> kind]

\* sendMessageToChatwoot: the media download, or CreateMessage, or nothing
HIM_SendContent(t) ==
    /\ pc[t] = "deliver"
    /\ LET m == call[t].evt.msg IN
       IF MediaKind(m) # "none"
       THEN \E downloadOk \in BOOLEAN :
            /\ Log(t, Outcome("download", downloadOk))
            /\ UNCHANGED cwMessages
            /\ IF downloadOk THEN Goto(t, "upload") ELSE Finish(t, "error")
       ELSE IF TextContent(m) # <<>>
       THEN \E ok \in BOOLEAN :
            /\ Log(t, Outcome("message_create", ok))
            /\ IF ok
               THEN /\ cwMessages' = Append(cwMessages,
                           RemoteMessage(t, "text", TextContent(m)))
                    /\ Finish(t, "ok")
               ELSE /\ UNCHANGED cwMessages
                    /\ Finish(t, "error")
       ELSE /\ UNCHANGED <<cwMessages, calls>>
            /\ Finish(t, "ok")
    /\ UNCHANGED <<config, echoes, now, tickerStart, lastPass, passAt, passTodo, epoch, dedupeCache, conversationCache, dbConversations,
                   cwContacts, cwConversations, call, contactID, conversationID, tconfig, tepoch, seenAt, loaded,
                   outsideBridge>>

\* sendMediaMessage: client.SendMediaMessage with the downloaded bytes
HIM_UploadMedia(t) ==
    /\ pc[t] = "upload"
    /\ LET m == call[t].evt.msg IN
       \E ok \in BOOLEAN :
        /\ Log(t, Outcome("message_create", ok))
        /\ IF ok
           THEN /\ cwMessages' = Append(cwMessages,
                       RemoteMessage(t, MediaKind(m), MediaCaption(m)))
                /\ Finish(t, "ok")
           ELSE /\ UNCHANGED cwMessages
                /\ Finish(t, "error")
    /\ UNCHANGED <<config, echoes, now, tickerStart, lastPass, passAt, passTodo, epoch, dedupeCache, conversationCache, dbConversations,
                   cwContacts, cwConversations, call, contactID, conversationID, tconfig, tepoch, seenAt, loaded,
                   outsideBridge>>

HandleIncomingMessage(t, S) ==
    \/ HIM_DedupCheck(t, S)
    \/ HIM_FilterAndLoadConfig(t)
    \/ HIM_FindContact(t)
    \/ HIM_CreateContact(t)
    \/ EC_MemoryLookup(t)
    \/ EC_StoreLookup(t)
    \/ EC_CacheHit(t)
    \/ EC_CreateRemote(t)
    \/ EC_Persist(t)
    \/ EC_StoreMemory(t)
    \/ HIM_SendContent(t)
    \/ HIM_UploadMedia(t)

\* ------------------------------------------------------------------------
\* HandleChatwootWebhook
\* ------------------------------------------------------------------------
GoodToken == <<"t", "1">>
BadToken == <<"t", "x">>

\* a lookup that takes every token for the tenant's
TokenUserAny(token) == U1

\* userinfocache / users table: the user a token names, <<>> when none
TokenUser(token) == IF token = GoodToken THEN U1 ELSE <<>>

WebhookMessage(id, sourceID, attachments) ==
    [id |-> id, sourceID |-> sourceID, attachments |-> attachments]

\* chatID as step 6 extracts it from conversation.meta.sender
Destination(p) ==
    IF p.identifier = <<>>
    THEN TrimPrefix(p.phoneNumber, <<"+">>)
    ELSE SplitFirst(p.identifier, "@")

\* recipientJID.String()
RecipientJID(p) == NewJID(Destination(p), DefaultUserServer)

\* step 5: the first listed message is one the bridge created and is this message
IsLoopEchoLastMessage(p) ==
    /\ Len(p.messages) > 0
    /\ HasPrefix(p.messages[Len(p.messages)].sourceID, WAIDPrefix)
    /\ p.messages[Len(p.messages)].id = p.id

IsLoopEcho(p) ==
    /\ Len(p.messages) > 0
    /\ HasPrefix(p.messages[1].sourceID, WAIDPrefix)
    /\ p.messages[1].id = p.id

\* caption of one attachment
AttachmentCaption(content, dataURL) ==
    IF content = <<>> THEN dataURL ELSE content \o <<"\n\n">> \o dataURL

\* index of the first listed message with the payload's id that has attachments, 0 if none
RECURSIVE AttachmentMessageFrom(_, _)
AttachmentMessageFrom(p, i) ==
    IF i > Len(p.messages) THEN 0
    ELSE IF p.messages[i].id = p.id /\ Len(p.messages[i].attachments) > 0 THEN i
    ELSE AttachmentMessageFrom(p, i + 1)

\* the texts the handler sends, in order
SendQueue(p) ==
    LET i == AttachmentMessageFrom(p, 1) IN
    IF i # 0
    THEN [k \in 1..Len(p.messages[i].attachments) |->
            AttachmentCaption(p.content, p.messages[i].attachments[k])]
    ELSE IF p.content # <<>> THEN <<p.content>>
    ELSE <<>>

\* ids the WhatsApp client gives to the messages it sends
SendIDs == <<"1", "2", "3", "4", "5", "6", "7", "8", "9">>
SentID(n) == <<"w", SendIDs[n]>>

\* the JSON object of a response: the fields it has, "" for a field it has not
NoResponseBody == [error |-> "", status |-> "", reason |-> ""]
ErrorBody(msg) == [error |-> msg, status |-> "", reason |-> ""]
IgnoredBody(reason) == [error |-> "", status |-> "ignored", reason |-> reason]
SuccessBody == [error |-> "", status |-> "success", reason |-> ""]

Respond(h, status, msg) ==
    /\ hpc' = [hpc EXCEPT ![h] = "done"]
    /\ hstatus' = [hstatus EXCEPT ![h] = status]
    /\ hbody' = [hbody EXCEPT ![h] = msg]

HGoto(h, label) ==
    /\ hpc' = [hpc EXCEPT ![h] = label]
    /\ UNCHANGED <<hstatus, hbody>>

HLog(h, ops) == hlog' = [hlog EXCEPT ![h] = @ \o ops]

Pass == [status |-> 0, body |-> NoResponseBody]
Reject(code, b) == [status |-> code, body |-> b]

\* steps 4 and 5: the reason for ignoring an event, "" when it is not ignored
IgnoreReason(p) ==
    IF p.event # "message_created" THEN "not message_created"
    ELSE IF p.messageType # "outgoing" THEN "not outgoing"
    ELSE IF p.private THEN "private note"
    ELSE IF IsLoopEcho(p) THEN "loop prevention"
    ELSE ""

\* the event filters without the private-note test
ValidationNoPrivateTest(r) ==
    IF r.token = <<>> THEN Reject(401, ErrorBody("missing token"))
    ELSE IF TokenUser(r.token) = <<>> THEN Reject(401, ErrorBody("invalid token"))
    ELSE IF ~r.bodyOk THEN Reject(400, ErrorBody("invalid payload"))
    ELSE IF r.payload.event # "message_created"
         THEN Reject(200, IgnoredBody("not message_created"))
    ELSE IF r.payload.messageType # "outgoing" THEN Reject(200, IgnoredBody("not outgoing"))
    ELSE IF IsLoopEcho(r.payload) THEN Reject(200, IgnoredBody("loop prevention"))
    ELSE IF Destination(r.payload) = <<>> THEN Reject(400, ErrorBody("no destination"))
    ELSE Pass

\* the validation without the destination test
ValidationNoDestinationTest(r) ==
    IF r.token = <<>> THEN Reject(401, ErrorBody("missing token"))
    ELSE IF TokenUser(r.token) = <<>> THEN Reject(401, ErrorBody("invalid token"))
    ELSE IF ~r.bodyOk THEN Reject(400, ErrorBody("invalid payload"))
    ELSE IF IgnoreReason(r.payload) # "" THEN Reject(200, IgnoredBody(IgnoreReason(r.payload)))
    ELSE Pass

\* steps 1 to 7: the response that ends the request early, Pass when none does
Validation(r) ==
    IF r.token = <<>> THEN Reject(401, ErrorBody("missing token"))
    ELSE IF TokenUser(r.token) = <<>> THEN Reject(401, ErrorBody("invalid token"))
    ELSE IF ~r.bodyOk THEN Reject(400, ErrorBody("invalid payload"))
    ELSE IF IgnoreReason(r.payload) # "" THEN Reject(200, IgnoredBody(IgnoreReason(r.payload)))
    ELSE IF Destination(r.payload) = <<>> THEN Reject(400, ErrorBody("no destination"))
    ELSE Pass

\* steps 1 to 7: token, payload, event filters, loop prevention, destination
Hook_Receive(h, R) ==
    /\ hpc[h] = "idle"
    /\ \E r \in R :
        /\ hreq' = [hreq EXCEPT ![h] = r]
        /\ huser' = [huser EXCEPT ![h] = TokenUser(r.token)]
        /\ IF Validation(r) # Pass
           THEN Respond(h, Validation(r).status, Validation(r).body)
           ELSE HGoto(h, "store")
    /\ UNCHANGED <<bridgeVars, taskVars, messageDedupeCache, cleanupLoops,
                   waSent, hqueue, hresp, hlog, deliveryVars, surfaceVars>>

\* Service.StoreConversationFromWebhook: insert or refresh the row of (user, chat)
StoreConversationFromWebhook(db, user, chat, conv, contact, inbox) ==
    MapStore(db, <<user, chat>>, ConversationRow(conv, contact, inbox))

\* step 8 with a store failure answered 500 instead of being logged
Hook_StoreConversationAbortOnError(h) ==
    /\ hpc[h] = "store"
    /\ LET p == hreq[h].payload IN
       IF p.convID > 0
       THEN /\ cleanupLoops' = cleanupLoops + 1
            /\ \E dbOk \in BOOLEAN :
                /\ IF dbOk
                   THEN /\ dbConversations' = StoreConversationFromWebhook(dbConversations,
                                huser[h], RecipientJID(p), p.convID, p.senderID, p.inboxID)
                        /\ HGoto(h, "client")
                   ELSE /\ UNCHANGED dbConversations
                        /\ Respond(h, 500, ErrorBody("failed to store conversation"))
                /\ HLog(h, IF dbOk THEN <<"store_mapping">>
                           ELSE <<"store_mapping", "failed">>)
       ELSE /\ UNCHANGED <<cleanupLoops, dbConversations, hlog>>
            /\ HGoto(h, "client")
    /\ UNCHANGED <<config, echoes, now, tickerStart, lastPass, passAt, passTodo, epoch, dedupeCache, conversationCache,
                   cwContacts, cwConversations, cwMessages, taskVars,
                   messageDedupeCache, waSent, hreq, huser, hqueue, hresp, deliveryVars, surfaceVars>>

\* step 9 without the IsConnected test
Hook_CheckClientNoConnectedTest(h) ==
    /\ hpc[h] = "client"
    /\ \E client \in {"missing", "loggedOut", "disconnected", "ready"} :
        /\ IF client = "missing" THEN
               /\ Respond(h, 503, ErrorBody("whatsapp client not ready"))
               /\ UNCHANGED hqueue
           ELSE IF client = "loggedOut" THEN
               /\ Respond(h, 503, ErrorBody("whatsapp not logged in"))
               /\ UNCHANGED hqueue
           ELSE IF SendQueue(hreq[h].payload) = <<>> THEN
               /\ Respond(h, 200, SuccessBody) /\ UNCHANGED hqueue
           ELSE
               /\ hqueue' = [hqueue EXCEPT ![h] = SendQueue(hreq[h].payload)]
               /\ HGoto(h, "send")
        /\ HLog(h, <<"client_lookup", client>>)
    /\ UNCHANGED <<bridgeVars, taskVars, messageDedupeCache, cleanupLoops,
                   waSent, hreq, huser, hresp, deliveryVars, surfaceVars>>

\* a send whose error is logged and skipped instead of ending the request
Hook_SendIgnoresError(h) ==
    /\ hpc[h] = "send"
    /\ \E ok \in BOOLEAN :
        /\ IF ok
           THEN LET id == SentID(Len(waSent) + 1)
                    jid == RecipientJID(hreq[h].payload)
                IN
                /\ waSent' = Append(waSent,
                                    [id |-> id, to |-> jid, text |-> Head(hqueue[h])])
                /\ echoes' = echoes \cup
                       {Call(huser[h], Event(id, jid, TRUE, TextMessage(Head(hqueue[h]))))}
                /\ hresp' = [hresp EXCEPT ![h] = id]
                /\ HGoto(h, "register")
                /\ UNCHANGED hqueue
           ELSE /\ hqueue' = [hqueue EXCEPT ![h] = Tail(@)]
                /\ IF Tail(hqueue[h]) = <<>>
                   THEN Respond(h, 200, SuccessBody)
                   ELSE HGoto(h, "send")
                /\ UNCHANGED <<waSent, echoes, hresp>>
        /\ HLog(h, IF ok THEN <<"send">> ELSE <<"send", "failed">>)
    /\ UNCHANGED <<config, now, tickerStart, lastPass, passAt, passTodo, epoch, dedupeCache, conversationCache, dbConversations,
                   cwContacts, cwConversations, cwMessages, taskVars,
                   messageDedupeCache, cleanupLoops, hreq, huser, deliveryVars, surfaceVars>>

\* step 8: a new Service (with its own cleanup goroutine) stores the mapping
Hook_StoreConversation(h) ==
    /\ hpc[h] = "store"
    /\ LET p == hreq[h].payload IN
       IF p.convID > 0
       THEN /\ cleanupLoops' = cleanupLoops + 1
            /\ \E dbOk \in BOOLEAN :
                /\ IF dbOk
                   THEN dbConversations' = StoreConversationFromWebhook(dbConversations,
                           huser[h], RecipientJID(p), p.convID, p.senderID, p.inboxID)
                   ELSE UNCHANGED dbConversations
                /\ HLog(h, IF dbOk THEN <<"store_mapping">>
                           ELSE <<"store_mapping", "failed">>)
       ELSE UNCHANGED <<cleanupLoops, dbConversations, hlog>>
    /\ HGoto(h, "client")
    /\ UNCHANGED <<config, echoes, now, tickerStart, lastPass, passAt, passTodo, epoch, dedupeCache, conversationCache,
                   cwContacts, cwConversations, cwMessages, taskVars,
                   messageDedupeCache, waSent, hreq, huser, hqueue, hresp, deliveryVars, surfaceVars>>

\* step 9, first part: the tenant's WhatsApp client must exist, be logged in, connected
Hook_CheckClient(h) ==
    /\ hpc[h] = "client"
    /\ \E client \in {"missing", "loggedOut", "disconnected", "ready"} :
        /\ IF client = "missing" THEN
               /\ Respond(h, 503, ErrorBody("whatsapp client not ready"))
               /\ UNCHANGED hqueue
           ELSE IF client = "loggedOut" THEN
               /\ Respond(h, 503, ErrorBody("whatsapp not logged in"))
               /\ UNCHANGED hqueue
           ELSE IF client = "disconnected" THEN
               /\ Respond(h, 503, ErrorBody("whatsapp disconnected"))
               /\ UNCHANGED hqueue
           ELSE IF SendQueue(hreq[h].payload) = <<>> THEN
               /\ Respond(h, 200, SuccessBody) /\ UNCHANGED hqueue
           ELSE
               /\ hqueue' = [hqueue EXCEPT ![h] = SendQueue(hreq[h].payload)]
               /\ HGoto(h, "send")
        /\ HLog(h, <<"client_lookup", client>>)
    /\ UNCHANGED <<bridgeVars, taskVars, messageDedupeCache, cleanupLoops,
                   waSent, hreq, huser, hresp, deliveryVars, surfaceVars>>

\* waClient.SendMessage: on success the message exists on WhatsApp and its echo
\* (an event of the tenant's own account) may be delivered to the inbound path
Hook_Send(h) ==
    /\ hpc[h] = "send"
    /\ \E ok \in BOOLEAN :
        /\ IF ok
           THEN LET id == SentID(Len(waSent) + 1)
                    jid == RecipientJID(hreq[h].payload)
                IN
                /\ waSent' = Append(waSent,
                                    [id |-> id, to |-> jid, text |-> Head(hqueue[h])])
                /\ echoes' = echoes \cup
                       {Call(huser[h], Event(id, jid, TRUE, TextMessage(Head(hqueue[h]))))}
                /\ hresp' = [hresp EXCEPT ![h] = id]
                /\ HGoto(h, "register")
           ELSE /\ Respond(h, 500,
                           ErrorBody(IF AttachmentMessageFrom(hreq[h].payload, 1) # 0
                                     THEN "failed to send media"
                                     ELSE "failed to send message"))
                /\ UNCHANGED <<waSent, echoes, hresp>>
        /\ HLog(h, IF ok THEN <<"send">> ELSE <<"send", "failed">>)
    /\ UNCHANGED <<config, now, tickerStart, lastPass, passAt, passTodo, epoch, dedupeCache, conversationCache, dbConversations,
                   cwContacts, cwConversations, cwMessages, taskVars,
                   messageDedupeCache, cleanupLoops, hreq, huser, hqueue, deliveryVars, surfaceVars>>

\* messageDedupeCache.Store(resp.ID, true), then the next attachment or the response
Hook_Register(h) ==
    /\ hpc[h] = "register"
    /\ messageDedupeCache' = MapStore(messageDedupeCache, hresp[h], TRUE)
    /\ hqueue' = [hqueue EXCEPT ![h] = Tail(@)]
    /\ IF Tail(hqueue[h]) = <<>>
       THEN Respond(h, 200, SuccessBody)
       ELSE HGoto(h, "send")
    /\ HLog(h, <<"register">>)
    /\ UNCHANGED <<bridgeVars, taskVars, cleanupLoops, waSent,
                   hreq, huser, hresp, deliveryVars, surfaceVars>>

HandleChatwootWebhook(h, R) ==
    \/ Hook_Receive(h, R)
    \/ Hook_StoreConversation(h)
    \/ Hook_CheckClient(h)
    \/ Hook_Send(h)
    \/ Hook_Register(h)

\* ------------------------------------------------------------------------
\* Delivery engine: callHookWithHmac / callHookFileWithHmac
\* ------------------------------------------------------------------------
\* maxRetries := 1; if *webhookRetryEnabled { maxRetries = *webhookRetryCount }
MaxRetriesAlwaysCount(cfg) == cfg.retryCount

MaxRetries(cfg) == IF cfg.retryEnabled THEN cfg.retryCount ELSE 1

\* backoffFactor := 1 << uint(attempt-1)
BackoffFactorLinear(a) == a

BackoffFactor(a) == 2 ^ (a - 1)

\* delayDuration, in seconds
DelayDuration(cfg, a) == cfg.delaySeconds * BackoffFactor(a)

\* the JSON object of payload["jsonData"] merged with instanceName and userID
PostMap(payload) ==
    [kind |-> "postmap",
     fields |-> {"event", "userID"} \cup
                (IF payload.instanceName THEN {"instanceName"} ELSE {})]

\* the payload map[string]string itself
PayloadMap(payload) ==
    [kind |-> "payload",
     fields |-> (IF payload.jsonData = "absent" THEN {} ELSE {"jsonData"}) \cup
                (IF payload.instanceName THEN {"instanceName"} ELSE {}) \cup {"token"}]

\* finalPayload of the file variant: the payload plus the file path
FilePayload(payload) ==
    [kind |-> "payload", fields |-> PayloadMap(payload).fields \cup {"file"}]

\* body as one attempt of callHookWithHmac leaves it
AttemptBody(cfg, payload, prev) ==
    IF cfg.format = "json"
    THEN IF payload.jsonData = "valid" THEN PostMap(payload) ELSE prev
    ELSE PayloadMap(payload)

\* generateHmacSignature: "" when the key cannot be decrypted
Signature(key) == IF key = "good" THEN "sig" ELSE ""

\* signing without the test for an empty key: an HMAC under the empty key
AttemptSignatureNoKeyCheck(key) == IF key = "bad" THEN "" ELSE "sig"

\* the x-hmac-signature header of one attempt ("" when the header is not set)
AttemptSignature(key) == IF key # "none" THEN Signature(key) ELSE ""

DeliveryRequests ==
    [payload : [jsonData : {"absent", "valid", "invalid"}, instanceName : BOOLEAN],
     key : {"none", "good", "bad"}]

NoDelivery ==
    [payload |-> [jsonData |-> "absent", instanceName |-> FALSE], key |-> "none"]

NoBody == [kind |-> "none", fields |-> {}]

\* what one POST can come to: a 2xx status, another status, no response at all
Outcomes == {"2xx", "non2xx", "transport"}

\* the log entry of a backoff sleep
SleepEntry(seconds) ==
    [kind |-> "sleep", seconds |-> seconds, outcome |-> "", body |-> NoBody,
     signature |-> ""]

\* the log entry of a POST
PostEntry(outcome, b, signature) ==
    [kind |-> "post", seconds |-> 0, outcome |-> outcome, body |-> b,
     signature |-> signature]

\* ------------------------------------------------------------------------
\* The dead-letter publisher (RabbitMQ)
\* ------------------------------------------------------------------------
\* PublishToRabbit with the test of rabbitEnabled left out
PublishToRabbitNoEnabledTest(enabled, declareOk, publishOk) ==
    IF ~declareOk THEN "declare_failed"
    ELSE IF ~publishOk THEN "publish_failed"
    ELSE "published"

\* PublishToRabbit: "noop" and "published" are the nil returns, the other two the
\* errors of QueueDeclare and of Publish
PublishToRabbit(enabled, declareOk, publishOk) ==
    IF ~enabled THEN "noop"
    ELSE IF ~declareOk THEN "declare_failed"
    ELSE IF ~publishOk THEN "publish_failed"
    ELSE "published"

\* ------------------------------------------------------------------------
\* The connection of the publisher: InitRabbitMQ, handleConnectionErrors
\* ------------------------------------------------------------------------
\* unexpected connection closes explored
MaxCloses == 2
\* PublishToRabbit calls interleaved with the connection handling
MaxPublishes == 2

\* const maxRetries, retryInterval (seconds)
rabbitMaxRetries == 10
retryInterval == 3

\* the callers of PublishToRabbit: the hand-off of callHookWithHmac, that of
\* callHookFileWithHmac, and any other goroutine that publishes an event
Publishers == {"data", "file", "direct"}

\* the handleConnectionErrors goroutines there can be: the one InitRabbitMQ starts and
\* one per reconnection
Monitors == 1..(MaxCloses + 1)

\* log entries of InitRabbitMQ: a connection attempt (Dial, then Channel) and the
\* sleep that precedes the next one
AttemptEntry(ok) == [op |-> "attempt", ok |-> ok, seconds |-> 0]
RetrySleep == [op |-> "sleep", ok |-> TRUE, seconds |-> retryInterval]

\* the goroutines that are running
RunningMonitors == {m \in Monitors : mpc[m] \in {"watching", "reconnecting"}}

\* the goroutine the next "go handleConnectionErrors()" starts
NextMonitor == CHOOSE m \in Monitors : mpc[m] = "unborn" /\ \A k \in 1..(m - 1) : mpc[k] # "unborn"

\* InitRabbitMQ's attempt taken as successful as soon as Dial succeeds
ConnectVerdictDialOnly(dialOk, chanOk, att) ==
    IF dialOk THEN "connected"
    ELSE IF att < rabbitMaxRetries THEN "retry"
    ELSE "disabled"

\* one pass of InitRabbitMQ's loop: what follows the Dial and Channel calls
ConnectVerdict(dialOk, chanOk, att) ==
    IF dialOk /\ chanOk THEN "connected"
    ELSE IF att < rabbitMaxRetries THEN "retry"
    ELSE "disabled"

\* InitRabbitMQ up to the loop: publishing is disabled when RABBITMQ_URL is unset
IRM_Start ==
    /\ rpc = "idle"
    /\ IF ~rabbitURL
       THEN rabbitEnabled' = FALSE /\ rpc' = "done" /\ UNCHANGED rattempt
       ELSE rattempt' = 1 /\ rpc' = "dial" /\ UNCHANGED rabbitEnabled
    /\ UNCHANGED <<bridgeVars, taskVars, hookVars, surfaceVars, settings, dataVars, fileVars,
                   deadLetters, errorQueue, plog, rabbitURL, rlog, rabbitConn,
                   rabbitChannel, mpc, mattempt, closes, ppc, penabled, pubs, usedChannels>>

\* one connection attempt of InitRabbitMQ
IRM_Attempt ==
    /\ rpc = "dial"
    /\ \E dialOk \in BOOLEAN, chanOk \in BOOLEAN :
        LET verdict == ConnectVerdict(dialOk, chanOk, rattempt) IN
        /\ rlog' = Append(rlog, AttemptEntry(dialOk /\ chanOk))
        /\ IF verdict = "connected" THEN
               /\ rabbitConn' = rabbitConn + 1
               /\ rabbitChannel' = IF chanOk THEN rabbitConn + 1 ELSE 0
               /\ rabbitEnabled' = TRUE
               /\ mpc' = [mpc EXCEPT ![NextMonitor] = "watching"]
               /\ rpc' = "done"
           ELSE IF verdict = "retry" THEN
               /\ rpc' = "sleep"
               /\ UNCHANGED <<rabbitConn, rabbitChannel, rabbitEnabled, mpc>>
           ELSE
               /\ rabbitEnabled' = FALSE
               /\ rpc' = "done"
               /\ UNCHANGED <<rabbitConn, rabbitChannel, mpc>>
    /\ UNCHANGED <<bridgeVars, taskVars, hookVars, surfaceVars, settings, dataVars, fileVars,
                   deadLetters, errorQueue, plog, rabbitURL, rattempt, mattempt, closes,
                   ppc, penabled, pubs, usedChannels>>

\* time.Sleep(retryInterval); continue
IRM_Sleep ==
    /\ rpc = "sleep"
    /\ rlog' = Append(rlog, RetrySleep)
    /\ rattempt' = rattempt + 1
    /\ rpc' = "dial"
    /\ UNCHANGED <<bridgeVars, taskVars, hookVars, surfaceVars, settings, dataVars, fileVars,
                   queueVars, rabbitURL, rabbitConn, rabbitChannel, mpc, mattempt, closes,
                   ppc, penabled, pubs, usedChannels>>

InitRabbitMQ == IRM_Start \/ IRM_Attempt \/ IRM_Sleep

\* handleConnectionErrors at 'for err := range notifyClose': either the error of an
\* unexpected close is received, the publisher is disabled and the reconnection loop
\* starts, or the channel is closed without a value (the connection was closed
\* before NotifyClose registered, or was closed gracefully), the loop ends and the
\* goroutine returns leaving the package-level variables as they are
HCE_Close(m) ==
    /\ mpc[m] = "watching"
    /\ \E withError \in BOOLEAN :
        IF withError
        THEN /\ closes < MaxCloses
             /\ closes' = closes + 1
             /\ rabbitEnabled' = FALSE
             /\ mpc' = [mpc EXCEPT ![m] = "reconnecting"]
             /\ mattempt' = [mattempt EXCEPT ![m] = 1]
        ELSE /\ mpc' = [mpc EXCEPT ![m] = "returned"]
             /\ UNCHANGED <<closes, rabbitEnabled, mattempt>>
    /\ UNCHANGED <<bridgeVars, taskVars, hookVars, surfaceVars, settings, dataVars, fileVars,
                   deadLetters, errorQueue, plog, rabbitURL, rpc, rattempt, rlog,
                   rabbitConn, rabbitChannel, ppc, penabled, pubs, usedChannels>>

\* one pass of the reconnection loop: what follows the Dial and Channel calls
ReconnectVerdict(dialOk, chanOk, att) ==
    IF dialOk /\ chanOk THEN "reconnected"
    ELSE IF att < rabbitMaxRetries THEN "retry"
    ELSE "gave_up"

\* one reconnection attempt: sleep, Dial, Channel; on success the globals are set, a
\* new goroutine takes over and this one returns (its loop variable is gone); after
\* the last failure the goroutine returns
HCE_Reconnect(m) ==
    /\ mpc[m] = "reconnecting"
    /\ \E dialOk \in BOOLEAN, chanOk \in BOOLEAN :
        LET verdict == ReconnectVerdict(dialOk, chanOk, mattempt[m]) IN
        IF verdict = "reconnected" THEN
            /\ rabbitConn' = rabbitConn + 1
            /\ rabbitChannel' = rabbitConn + 1
            /\ rabbitEnabled' = TRUE
            /\ mpc' = [mpc EXCEPT ![m] = "ended", ![NextMonitor] = "watching"]
            /\ mattempt' = [mattempt EXCEPT ![m] = 0]
        ELSE IF verdict = "retry" THEN
            /\ mattempt' = [mattempt EXCEPT ![m] = @ + 1]
            /\ UNCHANGED <<rabbitConn, rabbitChannel, rabbitEnabled, mpc>>
        ELSE
            /\ mpc' = [mpc EXCEPT ![m] = "gaveUp"]
            /\ UNCHANGED <<rabbitConn, rabbitChannel, rabbitEnabled, mattempt>>
    /\ UNCHANGED <<bridgeVars, taskVars, hookVars, surfaceVars, settings, dataVars, fileVars,
                   deadLetters, errorQueue, plog, rabbitURL, rpc, rattempt, rlog, closes,
                   ppc, penabled, pubs, usedChannels>>

handleConnectionErrors(m) == HCE_Close(m) \/ HCE_Reconnect(m)

\* the package-level variables before InitRabbitMQ is called
InitPublisher ==
    /\ rpc = "idle"
    /\ rattempt = 0
    /\ rlog = <<>>
    /\ rabbitConn = 0
    /\ rabbitChannel = 0
    /\ mpc = [m \in Monitors |-> "unborn"]
    /\ mattempt = [m \in Monitors |-> 0]
    /\ closes = 0
    /\ ppc = [c \in Publishers |-> "idle"]
    /\ penabled = [c \in Publishers |-> FALSE]
    /\ pubs = 0
    /\ usedChannels = {}

\* ------------------------------------------------------------------------
\* callHookWithHmac
\* ------------------------------------------------------------------------
\* the call starts: settings are read, body initialised with the payload
D_Begin(R) ==
    /\ dpc = "idle"
    /\ \E r \in R :
        /\ dreq' = r
        /\ body' = PayloadMap(r.payload)
    /\ maxRetries' = MaxRetries(settings)
    /\ attempt' = 0
    /\ lastError' = "nil"
    /\ dpc' = "loop"
    /\ UNCHANGED <<bridgeVars, taskVars, hookVars, surfaceVars, settings, dlog, dret,
                   fileVars, queueVars,
                   rabbitVars>>

\* loop condition and the backoff sleep that precedes every attempt but the first
D_LoopHead ==
    /\ dpc = "loop"
    /\ IF attempt < maxRetries
       THEN /\ dpc' = "post"
            /\ IF attempt > 0
               THEN dlog' = Append(dlog, SleepEntry(DelayDuration(settings, attempt)))
               ELSE UNCHANGED dlog
       ELSE /\ dpc' = "final"
            /\ UNCHANGED dlog
    /\ UNCHANGED <<bridgeVars, taskVars, hookVars, surfaceVars, settings, dreq, attempt,
                   maxRetries, lastError, body, dret, fileVars, queueVars,
                   rabbitVars>>

\* one attempt: build the request, POST it, classify the outcome (one of O)
D_Post(O) ==
    /\ dpc = "post"
    /\ LET b == AttemptBody(settings, dreq.payload, body) IN
       /\ body' = b
       /\ \E outcome \in O :
           /\ dlog' = Append(dlog, PostEntry(outcome, b, AttemptSignature(dreq.key)))
           /\ IF outcome = "transport"
              THEN /\ lastError' = "transport"
                   /\ attempt' = attempt + 1
                   /\ dpc' = "loop"
                   /\ UNCHANGED dret
              ELSE IF outcome = "non2xx"
              THEN /\ lastError' = "status"
                   /\ IF ~settings.retryEnabled
                      THEN /\ dpc' = "final"
                           /\ UNCHANGED attempt
                      ELSE /\ dpc' = "loop"
                           /\ attempt' = attempt + 1
                   /\ UNCHANGED dret
              ELSE /\ lastError' = "nil"
                   /\ dpc' = "done"
                   /\ dret' = "void"
                   /\ UNCHANGED attempt
    /\ UNCHANGED <<bridgeVars, taskVars, hookVars, surfaceVars, settings, dreq, maxRetries,
                   fileVars, queueVars,
                   rabbitVars>>

\* WebhookErrorPayload
DeadLetterRecord(r, b, err) ==
    [url |-> "url", payload |-> b, userID |-> U1, key |-> r.key, filePath |-> "",
     error |-> err]

\* after the loop: a non-nil lastError becomes a dead-letter record and
\* PublishDataErrorToQueue is called with it; otherwise the call returns
D_Final ==
    /\ dpc = "final"
    /\ IF lastError # "nil"
       THEN /\ deadLetters' = Append(deadLetters, DeadLetterRecord(dreq, body, lastError))
            /\ dpc' = "handoff"
            /\ UNCHANGED dret
       ELSE /\ dret' = "void"
            /\ dpc' = "done"
            /\ UNCHANGED deadLetters
    /\ UNCHANGED <<bridgeVars, taskVars, hookVars, surfaceVars, settings, dreq, attempt,
                   maxRetries, lastError, body, dlog, fileVars, rabbitEnabled, errorQueue,
                   plog, rabbitVars>>

\* ------------------------------------------------------------------------
\* callHookFileWithHmac
\* ------------------------------------------------------------------------
\* maxRetries of callHookFileWithHmac
FileMaxRetries(cfg) == IF cfg.retryEnabled THEN cfg.retryCount ELSE 1

\* backoffFactor of callHookFileWithHmac
FileBackoffFactor(a) == 2 ^ (a - 1)

\* delayDuration of callHookFileWithHmac, in seconds
FileDelayDuration(cfg, a) == cfg.delaySeconds * FileBackoffFactor(a)

\* hmacSignature of one attempt of callHookFileWithHmac
FileAttemptSignature(key) == IF key # "none" THEN Signature(key) ELSE ""

\* the call starts: settings are read, finalPayload is the payload plus the file path
F_Begin(R) ==
    /\ fpc = "idle"
    /\ \E r \in R :
        /\ freq' = r
        /\ finalPayload' = FilePayload(r.payload)
    /\ fmaxRetries' = FileMaxRetries(settings)
    /\ fattempt' = 0
    /\ flastError' = "nil"
    /\ fpc' = "loop"
    /\ UNCHANGED <<bridgeVars, taskVars, hookVars, surfaceVars, settings, flog, fret,
                   dataVars, queueVars,
                   rabbitVars>>

\* loop condition and the backoff sleep that precedes every attempt but the first
F_LoopHead ==
    /\ fpc = "loop"
    /\ IF fattempt < fmaxRetries
       THEN /\ fpc' = "post"
            /\ IF fattempt > 0
               THEN flog' = Append(flog, SleepEntry(FileDelayDuration(settings, fattempt)))
               ELSE UNCHANGED flog
       ELSE /\ fpc' = "final"
            /\ UNCHANGED flog
    /\ UNCHANGED <<bridgeVars, taskVars, hookVars, surfaceVars, settings, freq, fattempt,
                   fmaxRetries, flastError, finalPayload, fret, dataVars, queueVars,
                   rabbitVars>>

\* one attempt: sign finalPayload, POST the multipart form, classify the outcome
F_Post(O) ==
    /\ fpc = "post"
    /\ \E outcome \in O :
        /\ flog' = Append(flog, PostEntry(outcome, finalPayload,
                                          FileAttemptSignature(freq.key)))
        /\ IF outcome = "transport"
           THEN /\ flastError' = "transport"
                /\ fattempt' = fattempt + 1
                /\ fpc' = "loop"
                /\ UNCHANGED fret
           ELSE IF outcome = "non2xx"
           THEN /\ flastError' = "status"
                /\ IF ~settings.retryEnabled
                   THEN /\ fpc' = "final"
                        /\ UNCHANGED fattempt
                   ELSE /\ fpc' = "loop"
                        /\ fattempt' = fattempt + 1
                /\ UNCHANGED fret
           ELSE /\ flastError' = "nil"
                /\ fpc' = "done"
                /\ fret' = "nil"
                /\ UNCHANGED fattempt
    /\ UNCHANGED <<bridgeVars, taskVars, hookVars, surfaceVars, settings, freq, fmaxRetries,
                   finalPayload, dataVars, queueVars,
                   rabbitVars>>

\* WebhookFileErrorPayload
FileDeadLetterRecord(r, b, err) ==
    [url |-> "url", payload |-> b, userID |-> U1, key |-> r.key, filePath |-> "file",
     error |-> err]

\* after the loop: a non-nil lastError becomes a dead-letter record and
\* PublishFileErrorToQueue is called with it; otherwise the call returns nil
F_Final ==
    /\ fpc = "final"
    /\ IF flastError # "nil"
       THEN /\ deadLetters' = Append(deadLetters,
                                     FileDeadLetterRecord(freq, finalPayload, flastError))
            /\ fpc' = "handoff"
            /\ UNCHANGED fret
       ELSE /\ fret' = "nil"
            /\ fpc' = "done"
            /\ UNCHANGED deadLetters
    /\ UNCHANGED <<bridgeVars, taskVars, hookVars, surfaceVars, settings, freq, fattempt,
                   fmaxRetries, flastError, finalPayload, flog, dataVars, rabbitEnabled,
                   errorQueue, plog, rabbitVars>>

\* ------------------------------------------------------------------------
\* PublishToRabbit, step by step, and the two hand-offs that call it
\* ------------------------------------------------------------------------
\* the record a hand-off passes to PublishToRabbit
HandedOver(c) ==
    IF c = "data" THEN DeadLetterRecord(dreq, body, lastError)
    ELSE FileDeadLetterRecord(freq, finalPayload, flastError)

\* PublishToRabbit returns to caller c: PublishDataErrorToQueue and
\* PublishFileErrorToQueue log an error and return, and so does the delivery call
\* (callHookFileWithHmac with its lastError)
PTR_Return(c, enabled, outcome) ==
    /\ plog' = IF c = "direct" THEN plog
               ELSE Append(plog, [caller |-> c, enabled |-> enabled, result |-> outcome])
    /\ errorQueue' = IF outcome = "published" /\ c # "direct"
                     THEN Append(errorQueue, HandedOver(c))
                     ELSE errorQueue
    /\ ppc' = [ppc EXCEPT ![c] = "idle"]
    /\ dpc' = IF c = "data" THEN "done" ELSE dpc
    /\ dret' = IF c = "data" THEN "void" ELSE dret
    /\ fpc' = IF c = "file" THEN "done" ELSE fpc
    /\ fret' = IF c = "file" THEN "error" ELSE fret

\* PublishToRabbit goes on to its next call on the channel
PTR_Continue(c, label) ==
    /\ ppc' = [ppc EXCEPT ![c] = label]
    /\ UNCHANGED <<plog, errorQueue, dpc, dret, fpc, fret>>

\* what no step of PublishToRabbit changes
PTR_Unchanged ==
    UNCHANGED <<bridgeVars, taskVars, hookVars, surfaceVars, settings,
                dreq, attempt, maxRetries, lastError, body, dlog,
                freq, fattempt, fmaxRetries, flastError, finalPayload, flog,
                deadLetters, rabbitEnabled, rabbitURL, rpc, rattempt, rlog, rabbitConn,
                rabbitChannel, mpc, mattempt, closes>>

\* PublishToRabbit reads rabbitEnabled and returns nil when it is false
PTR_Begin(c) ==
    /\ ppc[c] = "idle"
    /\ c = "data" => dpc = "handoff"
    /\ c = "file" => fpc = "handoff"
    /\ c = "direct" => pubs < MaxPublishes
    /\ pubs' = IF c = "direct" THEN pubs + 1 ELSE pubs
    /\ penabled' = [penabled EXCEPT ![c] = rabbitEnabled]
    /\ IF PublishToRabbit(rabbitEnabled, TRUE, TRUE) = "noop"
       THEN PTR_Return(c, rabbitEnabled, "noop")
       ELSE PTR_Continue(c, "declare")
    /\ UNCHANGED usedChannels
    /\ PTR_Unchanged

\* rabbitChannel.QueueDeclare: the channel is dereferenced; an error is returned
\* without publishing
PTR_Declare(c) ==
    /\ ppc[c] = "declare"
    /\ usedChannels' = usedChannels \cup {rabbitChannel}
    /\ \E declareOk \in BOOLEAN :
        IF PublishToRabbit(TRUE, declareOk, TRUE) = "declare_failed"
        THEN PTR_Return(c, penabled[c], "declare_failed")
        ELSE PTR_Continue(c, "publish")
    /\ UNCHANGED <<pubs, penabled>>
    /\ PTR_Unchanged

\* rabbitChannel.Publish: the channel is dereferenced again; the error of Publish
\* is the return value
PTR_Publish(c) ==
    /\ ppc[c] = "publish"
    /\ usedChannels' = usedChannels \cup {rabbitChannel}
    /\ \E publishOk \in BOOLEAN :
        PTR_Return(c, penabled[c], PublishToRabbit(TRUE, TRUE, publishOk))
    /\ UNCHANGED <<pubs, penabled>>
    /\ PTR_Unchanged

\* PublishToRabbit called by c
PublishToRabbitCall(c) == PTR_Begin(c) \/ PTR_Declare(c) \/ PTR_Publish(c)

\* PublishDataErrorToQueue / PublishFileErrorToQueue
PublishDataErrorToQueue == PublishToRabbitCall("data")
PublishFileErrorToQueue == PublishToRabbitCall("file")

\* ------------------------------------------------------------------------
\* The clock and the cleanup goroutine of the dedupe cache
\* ------------------------------------------------------------------------
\* time.NewTicker(10 * time.Minute)
CleanupIntervalMinutes == 10

\* 30*time.Minute
DedupWindowMinutes == 30

\* last minute of the wall clock explored
MaxMinutes == 45

\* granularity of the wall clock, in minutes
ClockStepMinutes == 5

\* an expiry test at the length of the ticker interval
ExpiredAfterInterval(nowT, ts) == nowT - ts > CleanupIntervalMinutes

\* now.Sub(timestamp) > 30*time.Minute
Expired(nowT, ts) == nowT - ts > DedupWindowMinutes

\* the time of the last tick the ticker of cleanupDedupeCache has delivered by nowT
\* (tickerStart when it has delivered none)
LastTick(nowT) ==
    tickerStart + ((nowT - tickerStart) \div CleanupIntervalMinutes) * CleanupIntervalMinutes

\* the body of the Range callback for key k: Delete when the entry is expired at
\* the time the pass took
CleanupVisit(cache, k, nowT) ==
    LET kept == {x \in DOMAIN cache : x # k \/ ~Expired(nowT, cache[x])} IN
    IF kept = {} THEN <<>> ELSE [x \in kept |-> cache[x]]

\* time passes
AdvanceClock ==
    /\ now + ClockStepMinutes <= MaxMinutes
    /\ now' = now + ClockStepMinutes
    /\ UNCHANGED <<config, echoes, tickerStart, lastPass, passAt, passTodo, epoch, dedupeCache, conversationCache,
                   dbConversations, cwContacts, cwConversations, cwMessages, taskVars,
                   outsideBridge>>

\* the goroutine of cleanupDedupeCache receives a tick from ticker.C (the channel
\* holds at most one tick, later ones are dropped), takes time.Now() and starts the
\* Range over the cache; keys stored after this point are newer than the time taken
CDC_Tick ==
    /\ passTodo = {}
    /\ LastTick(now) > lastPass
    /\ lastPass' = LastTick(now)
    /\ passAt' = IF DOMAIN dedupeCache = {} THEN 0 ELSE now
    /\ passTodo' = DOMAIN dedupeCache
    /\ UNCHANGED <<config, echoes, now, tickerStart, epoch, dedupeCache, conversationCache,
                   dbConversations, cwContacts, cwConversations, cwMessages, taskVars,
                   outsideBridge>>

\* Range calls the function for one more key, in any order; the map is not locked
\* between two calls
CDC_Visit ==
    /\ passTodo # {}
    /\ \E k \in passTodo :
        /\ passTodo' = passTodo \ {k}
        /\ passAt' = IF passTodo = {k} THEN 0 ELSE passAt
        /\ dedupeCache' = CleanupVisit(dedupeCache, k, passAt)
    /\ UNCHANGED <<config, echoes, now, tickerStart, lastPass, epoch, conversationCache,
                   dbConversations, cwContacts, cwConversations, cwMessages, taskVars,
                   outsideBridge>>

cleanupDedupeCache == CDC_Tick \/ CDC_Visit

\* ------------------------------------------------------------------------
\* Configuration surface: GetChatwootConfig, SetChatwootConfig, DeleteChatwootConfig
\* ------------------------------------------------------------------------
\* longest remote API token explored
MaxTokenLen == 6

\* cleanup goroutines the surface may have started before the model stops creating more
MaxCleanupLoops == 3

TokenChars == {"a", "b"}

\* the non-empty tokens a tenant may configure: of every length up to MaxTokenLen,
\* the two that alternate the characters
Tokens ==
    {[i \in 1..n |-> IF (i + k) % 2 = 0 THEN "a" ELSE "b"] :
        n \in 1..MaxTokenLen, k \in {0, 1}}

\* maskedToken of GetChatwootConfig
MaskToken(tok) ==
    IF Len(tok) > 4
    THEN <<"*", "*", "*", "*">> \o SubSeq(tok, Len(tok) - 3, Len(tok))
    ELSE tok

\* s.Respond(w, r, status, message)
ApiError(op, code, msg) ==
    [op |-> op, status |-> code, hasToken |-> FALSE, token |-> <<>>, inboxID |-> 0,
     message |-> msg]

\* the 200 response of SetChatwootConfig and DeleteChatwootConfig
ApiSuccess(op, inbox, msg) ==
    [op |-> op, status |-> 200, hasToken |-> FALSE, token |-> <<>>, inboxID |-> inbox,
     message |-> msg]

\* ChatwootConfigResponse
ConfigResponse(row) ==
    [op |-> "get", status |-> 200, hasToken |-> TRUE, token |-> MaskToken(row.token),
     inboxID |-> row.inboxID, message |-> ""]

\* request bodies of SetChatwootConfig: undecodable, lacking account_id or url, or
\* complete; the token may be empty
SetRequests ==
    [form : {"undecodable", "incomplete", "complete"}, token : Tokens \cup {<<>>},
     enabled : BOOLEAN, autoCreate : BOOLEAN]

\* inboxes the remote side has created: the CreateInbox calls that returned an id
InboxesCreated(log) ==
    Cardinality({i \in DOMAIN log : log[i] = "inbox_create"})
        - Cardinality({i \in DOMAIN log : log[i] = "failed"})

GetChatwootConfig ==
    /\ \E dbOk \in BOOLEAN :
        apiResp' = IF ~dbOk THEN ApiError("get", 500, "Database error")
                   ELSE IF ~config[U1].exists
                   THEN ApiError("get", 404, "Chatwoot not configured")
                   ELSE ConfigResponse(config[U1])
    /\ UNCHANGED <<bridgeVars, taskVars, hookVars, deliveryVars, inboxLog, setVars,
                   stdioVars>>

\* concurrent SetChatwootConfig requests explored
NumSetters == 2
Setters == 1..NumSetters

\* the locals of a SetChatwootConfig request that has not read the store yet
NoSetRequest ==
    [form |-> "undecodable", token |-> <<>>, enabled |-> FALSE, autoCreate |-> FALSE]

\* the identifier of the bot contact that InitializeInbox creates
BotIdentifier == <<"1", "2", "3", "4", "5", "6">>

\* the handler returns: its response is written and its locals are gone
Set_Respond(s, resp) ==
    /\ apiResp' = resp
    /\ cpc' = [cpc EXCEPT ![s] = "idle"]
    /\ creq' = [creq EXCEPT ![s] = NoSetRequest]
    /\ cexists' = [cexists EXCEPT ![s] = FALSE]
    /\ cinbox' = [cinbox EXCEPT ![s] = 0]

\* decoding and validation of the body, then the SELECT on chatwoot_config:
\* configExists := err == nil, and the branch on auto_create
Set_Read(s, R) ==
    /\ cpc[s] = "idle"
    /\ \E req \in R :
        IF req.form = "undecodable"
        THEN Set_Respond(s, ApiError("set", 400, "Invalid request body"))
        ELSE IF req.form = "incomplete" \/ req.token = <<>>
        THEN Set_Respond(s, ApiError("set", 400, "account_id, token, and url are required"))
        ELSE \E getOk \in BOOLEAN :
             LET row == config[U1]
                 configExists == getOk /\ row.exists
                 autoSetup == req.autoCreate /\ (~configExists \/ row.inboxID = 0)
             IN
             /\ autoSetup => cleanupLoops < MaxCleanupLoops
             /\ creq' = [creq EXCEPT ![s] = req]
             /\ cexists' = [cexists EXCEPT ![s] = configExists]
             /\ cinbox' = [cinbox EXCEPT ![s] = IF configExists THEN row.inboxID ELSE 0]
             /\ cpc' = [cpc EXCEPT ![s] = IF autoSetup THEN "inbox" ELSE "save"]
             /\ UNCHANGED apiResp
    /\ UNCHANGED <<bridgeVars, taskVars, hookVars, deliveryVars, inboxLog, stdioVars>>

\* chatwoot.NewService, then InitializeInbox up to client.CreateInbox
Set_CreateInbox(s) ==
    /\ cpc[s] = "inbox"
    /\ cleanupLoops' = cleanupLoops + 1
    /\ \E inboxOk \in BOOLEAN :
        /\ inboxLog' = inboxLog \o Outcome("inbox_create", inboxOk)
        /\ IF inboxOk
           THEN /\ cinbox' = [cinbox EXCEPT ![s] = InboxesCreated(inboxLog) + 1]
                /\ cpc' = [cpc EXCEPT ![s] = "bot"]
                /\ UNCHANGED <<apiResp, creq, cexists>>
           ELSE Set_Respond(s, ApiError("set", 500,
                    "Failed to create inbox: failed to create inbox: <error>"))
    /\ UNCHANGED <<bridgeVars, taskVars, messageDedupeCache, waSent, hpc, hreq, huser,
                   hqueue, hresp, hstatus, hbody, hlog, deliveryVars, stdioVars>>

\* InitializeInbox: client.CreateContact for the bot contact, whose failure is only
\* logged
Set_CreateBotContact(s) ==
    /\ cpc[s] = "bot"
    /\ \E contactOk \in BOOLEAN :
        cwContacts' = IF contactOk
                      THEN cwContacts \cup {NewContact(cwContacts, <<>>, BotIdentifier)}
                      ELSE cwContacts
    /\ cpc' = [cpc EXCEPT ![s] = "save"]
    /\ UNCHANGED <<config, echoes, now, tickerStart, lastPass, passAt, passTodo, epoch, dedupeCache, conversationCache,
                   dbConversations, cwConversations, cwMessages, taskVars, hookVars,
                   deliveryVars, apiResp, inboxLog, creq, cexists, cinbox, stdioVars>>

\* the UPDATE (configExists) or the INSERT, and the response: an UPDATE that
\* matches no row is no error, an INSERT for a tenant that has a row is one
Set_Save(s) ==
    /\ cpc[s] = "save"
    /\ \E execOk \in BOOLEAN :
        LET row == [exists |-> TRUE, enabled |-> creq[s].enabled, inboxID |-> cinbox[s],
                    token |-> creq[s].token]
            failed == ~execOk \/ (~cexists[s] /\ config[U1].exists)
        IN
        IF failed
        THEN /\ Set_Respond(s, ApiError("set", 500, "Failed to save configuration"))
             /\ UNCHANGED config
        ELSE /\ Set_Respond(s, ApiSuccess("set", cinbox[s],
                                 "Chatwoot configuration saved successfully"))
             /\ config' = IF cexists[s] /\ ~config[U1].exists THEN config
                          ELSE [config EXCEPT ![U1] = row]
    /\ UNCHANGED <<echoes, now, tickerStart, lastPass, passAt, passTodo, epoch, dedupeCache, conversationCache,
                   dbConversations, cwContacts, cwConversations, cwMessages,
                   taskVars, hookVars, deliveryVars, inboxLog, stdioVars>>

\* one request of SetChatwootConfig, with a body of R
SetChatwootConfig(s, R) ==
    Set_Read(s, R) \/ Set_CreateInbox(s) \/ Set_CreateBotContact(s) \/ Set_Save(s)

DeleteChatwootConfig ==
    /\ \E dbOk \in BOOLEAN :
        IF ~dbOk
        THEN /\ apiResp' = ApiError("delete", 500, "Failed to delete configuration")
             /\ UNCHANGED config
        ELSE IF ~config[U1].exists
        THEN /\ apiResp' = ApiError("delete", 404, "Configuration not found")
             /\ UNCHANGED config
        ELSE /\ apiResp' = ApiSuccess("delete", 0,
                              "Chatwoot configuration deleted successfully")
             /\ config' = [config EXCEPT ![U1] = NoConfig]
    /\ UNCHANGED <<echoes, now, tickerStart, lastPass, passAt, passTodo, epoch, dedupeCache, conversationCache,
                   dbConversations, cwContacts, cwConversations, cwMessages,
                   taskVars, hookVars, deliveryVars, inboxLog, setVars, stdioVars>>

\* ------------------------------------------------------------------------
\* Process restart: the in-memory maps are lost, the store and the remote side stay
\* ------------------------------------------------------------------------
Restart ==
    /\ epoch < MaxRestarts
    /\ \A t \in TaskIds : pc[t] \in {"idle", "done"}
    /\ \A h \in Hooks : hpc[h] \in {"idle", "done"}
    /\ epoch' = epoch + 1
    /\ dedupeCache' = <<>>
    /\ conversationCache' = <<>>
    /\ messageDedupeCache' = <<>>
    /\ cleanupLoops' = 1
    /\ tickerStart' = now
    /\ lastPass' = now
    /\ passAt' = 0
    /\ passTodo' = {}
    /\ UNCHANGED <<config, echoes, now, dbConversations, cwContacts, cwConversations,
                   cwMessages, taskVars, waSent, hpc, hreq, huser, hqueue, hresp,
                   hstatus, hbody, hlog, deliveryVars, surfaceVars>>

\* ------------------------------------------------------------------------
\* Initial states
\* ------------------------------------------------------------------------
NoRequest ==
    [token |-> <<>>, bodyOk |-> FALSE,
     payload |-> [event |-> "", messageType |-> "", id |-> 0, content |-> <<>>,
                  private |-> FALSE, convID |-> 0, senderID |-> 0, inboxID |-> 0,
                  identifier |-> <<>>, phoneNumber |-> <<>>, messages |-> <<>>]]

InitTasks ==
    /\ pc = [t \in TaskIds |-> "idle"]
    /\ call = [t \in TaskIds |-> NoCall]
    /\ contactID = [t \in TaskIds |-> 0]
    /\ conversationID = [t \in TaskIds |-> 0]
    /\ result = [t \in TaskIds |-> "none"]
    /\ tconfig = [t \in TaskIds |-> NoConfig]
    /\ tepoch = [t \in TaskIds |-> 0]
    /\ seenAt = [t \in TaskIds |-> 0]
    /\ loaded = [t \in TaskIds |-> FALSE]
    /\ calls = [t \in TaskIds |-> <<>>]

InitHooks ==
    /\ messageDedupeCache = <<>>
    /\ cleanupLoops = 1
    /\ waSent = <<>>
    /\ hpc = [h \in Hooks |-> "idle"]
    /\ hreq = [h \in Hooks |-> NoRequest]
    /\ huser = [h \in Hooks |-> <<>>]
    /\ hqueue = [h \in Hooks |-> <<>>]
    /\ hresp = [h \in Hooks |-> <<>>]
    /\ hstatus = [h \in Hooks |-> 0]
    /\ hbody = [h \in Hooks |-> NoResponseBody]
    /\ hlog = [h \in Hooks |-> <<>>]

InitService ==
    /\ now = 0
    /\ tickerStart = 0
    /\ lastPass = 0
    /\ passAt = 0
    /\ passTodo = {}
    /\ epoch = 0
    /\ echoes = {}
    /\ dedupeCache = <<>>
    /\ conversationCache = <<>>
    /\ cwConversations = <<>>
    /\ cwMessages = <<>>

\* chatwoot_conversations is empty
NoMapping == dbConversations = <<>>

\* chatwoot_conversations holds the row of conversation 5 of Chat1, stored by a webhook
\* request of an earlier process lifetime
KnownMapping == dbConversations = StoreConversationFromWebhook(<<>>, U1, Chat1, 5, 7, 1)

\* the remote side knows the contact of Phone1 already, or not
InitContacts ==
    cwContacts \in {{}, {[id |-> 1, phone |-> formatToE164(Phone1), identifier |-> Chat1]}}

\* the README's retry settings
DefaultSettings ==
    [retryEnabled |-> TRUE, retryCount |-> 2, delaySeconds |-> 30, format |-> "json"]

InitCalls ==
    /\ dpc = "idle"
    /\ dreq = NoDelivery
    /\ attempt = 0
    /\ maxRetries = 0
    /\ lastError = "nil"
    /\ body = NoBody
    /\ dlog = <<>>
    /\ dret = "none"
    /\ fpc = "idle"
    /\ freq = NoDelivery
    /\ fattempt = 0
    /\ fmaxRetries = 0
    /\ flastError = "nil"
    /\ finalPayload = NoBody
    /\ flog = <<>>
    /\ fret = "none"
    /\ deadLetters = <<>>
    /\ errorQueue = <<>>
    /\ plog = <<>>

InitDelivery == InitCalls /\ InitPublisher

\* the publisher once InitRabbitMQ has returned without RABBITMQ_URL
PublisherUnconfigured ==
    /\ rabbitURL = FALSE
    /\ rabbitEnabled = FALSE
    /\ rpc = "done"
    /\ rattempt = 0
    /\ rlog = <<>>
    /\ rabbitConn = 0
    /\ rabbitChannel = 0
    /\ mpc = [m \in Monitors |-> "unborn"]
    /\ mattempt = [m \in Monitors |-> 0]
    /\ closes = 0
    /\ ppc = [c \in Publishers |-> "idle"]
    /\ penabled = [c \in Publishers |-> FALSE]
    /\ pubs = 0
    /\ usedChannels = {}

\* the publisher once InitRabbitMQ has returned after a first attempt that
\* succeeded: connection and channel set, publishing enabled, one monitor started
PublisherConnected ==
    /\ rabbitURL = TRUE
    /\ rabbitEnabled = TRUE
    /\ rpc = "done"
    /\ rattempt = 1
    /\ rlog = <<AttemptEntry(TRUE)>>
    /\ rabbitConn = 1
    /\ rabbitChannel = 1
    /\ mpc = [m \in Monitors |-> IF m = 1 THEN "watching" ELSE "unborn"]
    /\ mattempt = [m \in Monitors |-> 0]
    /\ closes = 0
    /\ ppc = [c \in Publishers |-> "idle"]
    /\ penabled = [c \in Publishers |-> FALSE]
    /\ pubs = 0
    /\ usedChannels = {}

\* ------------------------------------------------------------------------
\* The stdio server: one JSON-RPC request per line, answered through the HTTP handlers
\* ------------------------------------------------------------------------
\* a JSON value in the place of an id: absent, null, a number, a string or a boolean;
\* a number is written as an integer or with a fraction
JsonAbsent == [kind |-> "absent", num |-> 0, whole |-> TRUE, str |-> ""]
JsonNull == [kind |-> "null", num |-> 0, whole |-> TRUE, str |-> ""]
JsonNumber(n, whole) == [kind |-> "number", num |-> n, whole |-> whole, str |-> ""]
JsonString(str) == [kind |-> "string", num |-> 0, whole |-> TRUE, str |-> str]
JsonBool == [kind |-> "bool", num |-> 0, whole |-> TRUE, str |-> ""]

\* type ID; ID{} is the zero value
ID(num, str, isString, isSet) ==
    [Num |-> num, Str |-> str, IsString |-> isString, IsSet |-> isSet]
ZeroID == ID(0, "", FALSE, FALSE)

\* json.Unmarshal(data, &num) for a uint64: an unsigned integer literal is stored,
\* null is accepted and leaves num at 0, anything else is an error
UnmarshalUint64(j) ==
    IF j.kind = "number" /\ j.whole /\ j.num >= 0 THEN [ok |-> TRUE, num |-> j.num]
    ELSE IF j.kind = "null" THEN [ok |-> TRUE, num |-> 0]
    ELSE [ok |-> FALSE, num |-> 0]

\* json.Unmarshal(data, &str) for a string
UnmarshalString(j) ==
    IF j.kind = "string" THEN [ok |-> TRUE, str |-> j.str]
    ELSE IF j.kind = "null" THEN [ok |-> TRUE, str |-> ""]
    ELSE [ok |-> FALSE, str |-> ""]

\* ID.UnmarshalJSON: numeric first, then string
UnmarshalID(j) ==
    IF UnmarshalUint64(j).ok
    THEN [ok |-> TRUE, id |-> ID(UnmarshalUint64(j).num, "", FALSE, TRUE)]
    ELSE IF UnmarshalString(j).ok
    THEN [ok |-> TRUE, id |-> ID(0, UnmarshalString(j).str, TRUE, TRUE)]
    ELSE [ok |-> FALSE, id |-> ZeroID]

\* ID.MarshalJSON
MarshalID(id) ==
    IF ~id.IsSet THEN JsonNull
    ELSE IF id.IsString THEN JsonString(id.Str)
    ELSE JsonNumber(id.Num, TRUE)

\* json.Unmarshal(requestBytes, &req): the id member, when there is one, goes
\* through ID.UnmarshalJSON; a line that is no JSON object of the request's shape,
\* or whose id is rejected, is an error
UnmarshalRequest(line) ==
    IF ~line.wellFormed THEN [ok |-> FALSE, id |-> ZeroID]
    ELSE IF line.id.kind = "absent" THEN [ok |-> TRUE, id |-> ZeroID]
    ELSE UnmarshalID(line.id)

\* a response line; sendSuccess sets result, sendError sets error
NoStdioResponse ==
    [jsonrpc |-> "", id |-> JsonAbsent, hasResult |-> FALSE, hasError |-> FALSE,
     code |-> 0, message |-> ""]

sendSuccess(id, code) ==
    [jsonrpc |-> "2.0", id |-> MarshalID(id), hasResult |-> TRUE, hasError |-> FALSE,
     code |-> 0, message |-> ""]

sendError(id, code, errorMsg) ==
    [jsonrpc |-> "2.0", id |-> MarshalID(id), hasResult |-> FALSE, hasError |-> TRUE,
     code |-> code, message |-> errorMsg]

\* what a wrapped handler recorded: the status and the shape of the body
\*   "empty"        no body
\*   "text"         not JSON
\*   "data"         a JSON object with a "data" member
\*   "error"        a JSON object without "data" whose "error" member is a string
\*   "errorObject"  a JSON object without "data" whose "error" member is no string
\*   "object"       any other JSON object
\*   "array"        JSON that is neither an object nor a string
BodyShapes == {"empty", "text", "data", "error", "errorObject", "object", "array"}
IsMap(shape) == shape \in {"data", "error", "errorObject", "object"}

\* convertHTTPResponse for the bodies that decode to no JSON object
convertStatusOnly(requestID, recorder) ==
    IF recorder.status >= 200 /\ recorder.status < 300
    THEN sendSuccess(requestID, recorder.status)
    ELSE sendError(requestID, recorder.status,
                   IF recorder.body = "text" THEN "body" ELSE "request failed")

convertHTTPResponse(requestID, recorder) ==
    IF IsMap(recorder.body)
    THEN IF recorder.body = "data" THEN sendSuccess(requestID, recorder.status)
         ELSE IF recorder.body = "error"
         THEN sendError(requestID, recorder.status, "error")
         ELSE sendSuccess(requestID, recorder.status)
    ELSE convertStatusOnly(requestID, recorder)

\* routeRequest: unknown methods are answered 404, methods with a userId in the path
\* need the parameter, the others go to their handler
routeRequest(id, line, recorder) ==
    IF line.method = "nope"
    THEN sendError(id, 404, "unknown method")
    ELSE IF line.method = "admin.users.get" /\ ~line.userId
    THEN sendError(id, 400, "missing or invalid userId parameter")
    ELSE convertHTTPResponse(id, recorder)

\* the request reaches a wrapped HTTP handler
Routed(line) ==
    /\ UnmarshalRequest(line).ok /\ UnmarshalRequest(line).id.IsSet
    /\ line.method \in {"health", "admin.users.get"}
    /\ line.method = "admin.users.get" => line.userId

handleRequest(line, recorder) ==
    LET req == UnmarshalRequest(line) IN
    IF ~req.ok THEN sendError(ZeroID, 400, "invalid JSON request")
    ELSE IF ~req.id.IsSet THEN sendError(ZeroID, 400, "missing request id")
    ELSE IF line.method = "" THEN sendError(req.id, 400, "missing method")
    ELSE routeRequest(req.id, line, recorder)

\* request lines: well-formed or not, with an id of any JSON kind
JsonIds ==
    {JsonAbsent, JsonNull, JsonBool, JsonString("a"), JsonString("7"), JsonString(""),
     JsonNumber(0, TRUE), JsonNumber(42, TRUE), JsonNumber(0 - 1, TRUE),
     JsonNumber(1, FALSE)}

\* what scanner.Scan() delivers: a non-empty line, an empty line, a line longer than
\* the 512 KB buffer (Scan returns false, Err is ErrTooLong), or the end of stdin
ScanKinds == {"line", "empty", "oversize", "eof"}

NoLine ==
    [scan |-> "eof", wellFormed |-> FALSE, id |-> JsonAbsent, method |-> "",
     userId |-> FALSE]

RequestLines ==
    [scan : {"line"}, wellFormed : BOOLEAN, id : JsonIds,
     method : {"", "nope", "health", "admin.users.get"}, userId : BOOLEAN]
        \cup {[NoLine EXCEPT !.scan = k] : k \in ScanKinds \ {"line"}}

Recorders == [status : {199, 200, 204, 299, 300, 404, 500}, body : BodyShapes]

NoRecorder == [status |-> 0, body |-> "empty"]

\* request lines answered before the model stops feeding more
MaxLines == 2

\* one pass of Start's loop: one Scan; an empty line is skipped without an answer, a
\* line is answered with one line on stdout and the loop goes on, and the loop ends,
\* with no answer, at the end of stdin (Start returns nil) and at a line that is too
\* long (Start returns the scanner's error)
Stdio_Handle(L, H) ==
    /\ srun = "reading"
    /\ \E line \in L, recorder \in H :
        IF line.scan = "line"
        THEN /\ swritten < MaxLines
             /\ sline' = line
             /\ sreply' = IF Routed(line) THEN recorder ELSE NoRecorder
             /\ sout' = handleRequest(line, recorder)
             /\ swritten' = swritten + 1
             /\ UNCHANGED srun
        ELSE /\ srun' = IF line.scan = "empty" THEN "reading"
                        ELSE IF line.scan = "eof" THEN "nil" ELSE "error"
             /\ UNCHANGED <<sline, sreply, sout, swritten>>
    /\ UNCHANGED <<bridgeVars, taskVars, hookVars, deliveryVars, apiResp, inboxLog,
                   setVars>>

InitStdio ==
    /\ srun = "reading"
    /\ sline = NoLine
    /\ sreply = NoRecorder
    /\ sout = NoStdioResponse
    /\ swritten = 0

NoApiResponse ==
    [op |-> "none", status |-> 0, hasToken |-> FALSE, token |-> <<>>, inboxID |-> 0,
     message |-> ""]

InitSurface ==
    /\ apiResp = NoApiResponse
    /\ inboxLog = <<>>
    /\ cpc = [s \in Setters |-> "idle"]
    /\ creq = [s \in Setters |-> NoSetRequest]
    /\ cexists = [s \in Setters |-> FALSE]
    /\ cinbox = [s \in Setters |-> 0]
    /\ InitStdio

InitBridge(configs) ==
    /\ InitService
    /\ InitTasks
    /\ InitHooks
    /\ InitContacts
    /\ InitDelivery
    /\ InitSurface
    /\ settings = DefaultSettings
    /\ rabbitEnabled = FALSE
    /\ rabbitURL = FALSE
    /\ config \in [{U1} -> configs]

\* a process started on an empty chatwoot_conversations table
InitWith(configs) == InitBridge(configs) /\ NoMapping

\* ------------------------------------------------------------------------
\* Spec: inbound events and webhook requests of one chat, handled concurrently
\* ------------------------------------------------------------------------
\* an agent's reply in conversation 5 of contact 7, to be sent to Chat1
AgentReply(id, content, messages) ==
    [token |-> GoodToken, bodyOk |-> TRUE,
     payload |-> [event |-> "message_created", messageType |-> "outgoing", id |-> id,
                  content |-> content, private |-> FALSE, convID |-> 5, senderID |-> 7,
                  inboxID |-> 1, identifier |-> Chat1, phoneNumber |-> <<>>,
                  messages |-> messages]]

\* an image with a caption
ImageMessage(caption) == [EmptyMessage EXCEPT !.image = SomeMedia(caption)]

ConcurrentCalls ==
    {Call(U1, Event(M1, Chat1, FALSE, TextMessage(<<"Hello">>))),
     Call(U1, Event(M2, Chat1, FALSE, TextMessage(<<"Again">>))),
     Call(U1, Event(M2, Chat1, FALSE, ImageMessage(<<"cap">>)))}

ConcurrentRequests ==
    {AgentReply(1, <<"Hi">>, <<>>),
     AgentReply(2, <<"Hello">>, <<WebhookMessage(2, MessageSourceID(M1), <<>>)>>)}

Init == InitWith({EnabledConfig})

Next ==
    \/ \E t \in Tasks : HandleIncomingMessage(t, ConcurrentCalls)
    \/ \E h \in Hooks : HandleChatwootWebhook(h, ConcurrentRequests)

Spec == Init /\ [][Next]_vars

\* ------------------------------------------------------------------------
\* SpecInbound: concurrent inbound events of one chat, no webhook traffic
\* ------------------------------------------------------------------------
InitInbound == InitWith(ConfigValues)

NextInbound == \E t \in Tasks : HandleIncomingMessage(t, ConcurrentCalls)

SpecInbound == InitInbound /\ [][NextInbound]_vars

\* ------------------------------------------------------------------------
\* SpecSingle: one inbound event of any shape, any tenant configuration
\* ------------------------------------------------------------------------
AllCalls ==
    {Call(U1, Event(M1, Chat1, fromMe, m)) : fromMe \in BOOLEAN, m \in AllMessages}

\* the process starts with or without a stored mapping of the chat
InitSingle == InitBridge(ConfigValues) /\ (NoMapping \/ KnownMapping)

NextSingle == HandleIncomingMessage(1, AllCalls)

SpecSingle == InitSingle /\ [][NextSingle]_vars

\* SpecDedup: deliveries and redeliveries of two message ids, one after the other,
\* SpecDedup: deliveries and redeliveries of one message id, one after the other,
\* while time passes and the cleanup goroutine runs
\* ------------------------------------------------------------------------
\* a text event with id M1 and a reaction with id M2, which is recorded by the dedup
\* check and dropped by the noise filter
RedeliveryCalls ==
    {Call(U1, Event(M1, Chat1, FALSE, TextMessage(<<"Hello">>))),
     Call(U1, Event(M2, Chat1, FALSE, [EmptyMessage EXCEPT !.reaction = TRUE]))}

\* the events call t may carry: the first call carries the text event
DedupCalls(t) == {c \in RedeliveryCalls : t = 1 => c.evt.id = M1}

\* call t runs when the calls before it have returned
Settled(t) == \A u \in SeqTasks : u < t => pc[u] = "done"

NextDedup ==
    \/ \E t \in SeqTasks : Settled(t) /\ HandleIncomingMessage(t, DedupCalls(t))
    \/ AdvanceClock
    \/ cleanupDedupeCache

SpecDedup == InitWith({EnabledConfig}) /\ [][NextDedup]_vars

\* ------------------------------------------------------------------------
\* SpecSurface: requests to the configuration surface of one tenant: one
\* SetChatwootConfig request at a time, with GetChatwootConfig and
\* DeleteChatwootConfig requests served in between its steps
\* ------------------------------------------------------------------------
NextSurface ==
    \/ SetChatwootConfig(1, SetRequests)
    \/ GetChatwootConfig
    \/ DeleteChatwootConfig

SpecSurface == InitWith({NoConfig}) /\ [][NextSurface]_vars

\* ------------------------------------------------------------------------
\* SpecSeq: calls for one chat made one after the other on one Service
\* SpecRestart: the same, with process restarts in between
\* ------------------------------------------------------------------------
\* the i-th call carries its own message id
SeqCall(i) == Call(U1, Event(<<"m", SendIDs[i]>>, Chat1, FALSE, TextMessage(<<"Hello">>)))

\* call t runs when the calls before it have returned
Quiet(t) == \A u \in SeqTasks : u < t => pc[u] = "done"

InitSeq == InitWith({c \in ConfigValues : c.enabled})

NextSeq == \E t \in SeqTasks : Quiet(t) /\ HandleIncomingMessage(t, {SeqCall(t)})

SpecSeq == InitSeq /\ [][NextSeq]_vars

NextRestart == NextSeq \/ Restart

SpecRestart == InitSeq /\ [][NextRestart]_vars

\* ------------------------------------------------------------------------
\* SpecDelivery: one delivery call under every retry setting
\* ------------------------------------------------------------------------
SettingsValues ==
    [retryEnabled : BOOLEAN, retryCount : 0..MaxRetryCount,
     delaySeconds : 0..MaxDelaySeconds, format : {"json", "form"}]

InitDeliverySpec ==
    /\ InitService
    /\ NoMapping
    /\ InitTasks
    /\ InitHooks
    /\ InitCalls
    /\ PublisherUnconfigured \/ PublisherConnected
    /\ InitSurface
    /\ cwContacts = {}
    /\ config = [u \in {U1} |-> NoConfig]
    /\ settings \in SettingsValues

callHookWithHmac(R, O) ==
    D_Begin(R) \/ D_LoopHead \/ D_Post(O) \/ D_Final \/ PublishDataErrorToQueue

callHookFileWithHmac(R, O) ==
    F_Begin(R) \/ F_LoopHead \/ F_Post(O) \/ F_Final \/ PublishFileErrorToQueue

\* one delivery call, of either variant
NextDelivery ==
    \/ fpc = "idle" /\ callHookWithHmac(DeliveryRequests, Outcomes)
    \/ dpc = "idle" /\ callHookFileWithHmac(DeliveryRequests, Outcomes)

SpecDelivery == InitDeliverySpec /\ [][NextDelivery]_vars

\* ------------------------------------------------------------------------
\* SpecEquiv: a callHookWithHmac call, then a callHookFileWithHmac call under the
\* same settings whose attempts meet the outcomes the first call's attempts met
\* (and any outcome for an attempt the first call did not make)
\* ------------------------------------------------------------------------
EquivRequests ==
    {r \in DeliveryRequests : r.payload.jsonData = "valid" /\ r.payload.instanceName}

\* the outcomes the next attempt of the file call may meet
SameOutcome ==
    LET made == SelectSeq(dlog, LAMBDA e : e.kind = "post")
        k == Len(SelectSeq(flog, LAMBDA e : e.kind = "post")) + 1
    IN IF k <= Len(made) THEN {made[k].outcome} ELSE Outcomes

NextEquiv ==
    \/ callHookWithHmac(EquivRequests, Outcomes)
    \/ dpc = "done" /\ callHookFileWithHmac(EquivRequests, SameOutcome)

SpecEquiv == InitDeliverySpec /\ [][NextEquiv]_vars

\* ------------------------------------------------------------------------
\* SpecHook: one webhook request of any shape
\* ------------------------------------------------------------------------
URL1 == <<"http://cw/1.png">>
URL2 == <<"http://cw/2.pdf">>

WebhookMessages ==
    [id : {1, 2}, sourceID : {<<>>, MessageSourceID(M1)},
     attachments : {<<>>, <<URL1>>, <<URL1, URL2>>}]

MessageLists ==
    {<<>>} \cup {<<m>> : m \in WebhookMessages}
           \cup {<<m, n>> : m \in WebhookMessages, n \in WebhookMessages}

AllPayloads ==
    [event : {"message_created", "conversation_updated"},
     messageType : {"outgoing", "incoming"}, id : {1},
     content : {<<>>, <<"Hi">>}, private : BOOLEAN, convID : {0, 5},
     senderID : {7}, inboxID : {1},
     identifier : {<<>>, Chat1, Phone1}, phoneNumber : {<<>>, <<"+">> \o Phone1},
     messages : MessageLists]

AllRequests ==
    [token : {GoodToken}, bodyOk : {TRUE}, payload : AllPayloads] \cup
    [token : {<<>>, BadToken, GoodToken}, bodyOk : BOOLEAN,
     payload : {AgentReply(1, <<"Hi">>, <<>>).payload}]

NextHook == HandleChatwootWebhook(1, AllRequests)

SpecHook == Init /\ [][NextHook]_vars

\* ------------------------------------------------------------------------
\* SpecFirstContact: one inbound text event of a direct chat the bridge has never
\* seen, for a tenant with an enabled config and an inbox
\* ------------------------------------------------------------------------
TextMessages ==
    {m \in AllMessages :
        /\ ~m.protocol /\ ~m.reaction /\ ~m.pollCreation /\ ~m.pollUpdate /\ ~m.keepInChat
        /\ ~m.image.present /\ ~m.video.present /\ ~m.audio.present
        /\ ~m.document.present /\ ~m.sticker
        /\ (m.conversation # <<>> \/ m.extendedText.caption # <<>>)}

FirstContactCalls ==
    {Call(U1, Event(id, Chat1, FALSE, m)) :
        id \in {M1, M2}, m \in TextMessages \cup {ImageMessage(<<"cap">>)}}

\* the remote side has no contact of the chat; the store has no mapping of it, or one
\* left by an earlier process lifetime
InitFirstContact ==
    /\ InitBridge({EnabledConfig})
    /\ cwContacts = {}
    /\ (NoMapping \/ KnownMapping)

\* call t carries a text event of a chat the store has no mapping of from before
FirstContactScenario(t) == call[t].evt.msg \in TextMessages /\ ~KnownMapping

NextFirstContact == HandleIncomingMessage(1, FirstContactCalls)

SpecFirstContact == InitFirstContact /\ [][NextFirstContact]_vars

\* ------------------------------------------------------------------------
\* Helpers of the properties
\* ------------------------------------------------------------------------
\* how many times task t made the call op
CallCount(t, op) == Cardinality({i \in DOMAIN calls[t] : calls[t][i] = op})

Made(t, op) == \E i \in DOMAIN calls[t] : calls[t][i] = op

\* remote messages tagged with the source id of WhatsApp message id
RemoteMessagesOf(id) ==
    {i \in DOMAIN cwMessages : cwMessages[i].sourceID = MessageSourceID(id)}

\* remote conversations created for a chat
RemoteConversationsOf(chat) ==
    {i \in DOMAIN cwConversations : cwConversations[i].sourceID = ConversationSourceID(chat)}

Started(t) == pc[t] # "idle"
Returned(t) == pc[t] = "done"

\* ------------------------------------------------------------------------
\* C1
\* ------------------------------------------------------------------------
\* C1: among concurrent HandleIncomingMessage calls carrying the same message id,
\* exactly one passes the dedup check; the others return nil having made no call;
\* at most one remote message-creation call is made for the id, and exactly one
\* once the passing call has returned nil for an enabled tenant.
C1_DedupExactlyOnce ==
    \A t \in Tasks : Started(t) =>
        LET id == call[t].evt.id
            same == {u \in Tasks : Started(u) /\ call[u].evt.id = id}
            passed == {u \in same : ~loaded[u]}
            creators == {u \in same : Made(u, "message_create")}
        IN
        /\ Cardinality(passed) = 1
        /\ \A u \in same \ passed :
              Returned(u) /\ result[u] = "ok" /\ calls[u] = <<>>
        /\ Cardinality(creators) <= 1
        /\ \A u \in same : CallCount(u, "message_create") <= 1
        /\ Cardinality(RemoteMessagesOf(id)) <= 1
        /\ (/\ config[U1].exists /\ config[U1].enabled
            /\ \A u \in passed : Returned(u) /\ result[u] = "ok")
           => Cardinality(creators) = 1 /\ Cardinality(RemoteMessagesOf(id)) = 1

\* two calls with one id have returned: one was a duplicate, one message was created
C1_Witness ==
    \E t \in Tasks, u \in Tasks :
        /\ t # u /\ Returned(t) /\ Returned(u)
        /\ call[t].evt.id = call[u].evt.id
        /\ loaded[u] /\ ~loaded[t] /\ result[t] = "ok"
        /\ Cardinality(RemoteMessagesOf(call[t].evt.id)) = 1

\* ------------------------------------------------------------------------
\* C2
\* ------------------------------------------------------------------------
NoiseFlags(m) ==
    {f \in {"protocol", "reaction", "pollCreation", "pollUpdate", "keepInChat"} : m[f]}

MediaPresent(m) ==
    {k \in {"image", "video", "audio", "document"} : m[k].present}

\* the events the noise filter is specified to discard
IsNoise(m) ==
    \/ NoiseFlags(m) # {}
    \/ /\ m.conversation = <<>>
       /\ m.extendedText.caption = <<>>
       /\ MediaPresent(m) = {}
       /\ ~m.sticker

\* C2: a protocol message, reaction, poll-create, poll-update, keep-in-chat marker or
\* content-less event never gets past the noise filter: the call returns nil, having
\* made no remote call and written no ConversationMapping (the table is as it was at
\* the start, empty or holding the mapping of an earlier lifetime).
C2_NoiseMakesNoCalls ==
    \A t \in Tasks : (Started(t) /\ IsNoise(call[t].evt.msg)) =>
        /\ pc[t] \in {"filter", "done"}
        /\ calls[t] = <<>>
        /\ Returned(t) => result[t] = "ok"
        /\ (NoMapping \/ KnownMapping) /\ conversationCache = <<>>
        /\ cwConversations = <<>> /\ cwMessages = <<>>
        /\ \A c \in cwContacts : c.id = 1

\* a poll update that also carries text has been handled and dropped
C2_Witness ==
    \E t \in Tasks :
        /\ Returned(t) /\ ~loaded[t] /\ result[t] = "ok"
        /\ NoiseFlags(call[t].evt.msg) = {"pollUpdate"}
        /\ call[t].evt.msg.conversation # <<>>
        /\ config[U1].exists /\ config[U1].enabled

\* ------------------------------------------------------------------------
\* C3
\* ------------------------------------------------------------------------
\* the payloads C3 is about
LeadMessageIsOwnEcho(r) ==
    /\ r.token = GoodToken /\ r.bodyOk
    /\ r.payload.event = "message_created"
    /\ r.payload.messageType = "outgoing"
    /\ ~r.payload.private
    /\ r.payload.messages # <<>>
    /\ Len(Head(r.payload.messages).sourceID) >= 5
    /\ SubSeq(Head(r.payload.messages).sourceID, 1, 5) = <<"W", "A", "I", "D", ":">>
    /\ Head(r.payload.messages).id = r.payload.id

\* C3: a message_created / outgoing / non-private webhook whose first listed message
\* has a WAID: source id and the event's own id is answered 200 "ignored", with no
\* WhatsApp send, no ConversationMapping write and no dedup registration.
C3_LoopEchoIgnored ==
    \A h \in Hooks : (hpc[h] # "idle" /\ LeadMessageIsOwnEcho(hreq[h])) =>
        /\ hpc[h] = "done"
        /\ hstatus[h] = 200 /\ hbody[h] = IgnoredBody("loop prevention")
        /\ hlog[h] = <<>>
        /\ waSent = <<>> /\ dbConversations = <<>> /\ messageDedupeCache = <<>>
        /\ dedupeCache = <<>> /\ echoes = {}

\* an own echo that carries text, a destination and attachments has been ignored
C3_Witness ==
    \E h \in Hooks :
        /\ hpc[h] = "done" /\ hbody[h].status = "ignored"
        /\ LeadMessageIsOwnEcho(hreq[h])
        /\ hreq[h].payload.content # <<>>
        /\ hreq[h].payload.identifier # <<>>
        /\ Len(hreq[h].payload.messages) = 2
        /\ Head(hreq[h].payload.messages).attachments # <<>>

\* ------------------------------------------------------------------------
\* C4
\* ------------------------------------------------------------------------
SentIDs == {waSent[i].id : i \in DOMAIN waSent}

\* C4: the WhatsApp event that echoes a message sent by the reverse path (it carries
\* the id the send returned) is dropped by HandleIncomingMessage as already seen, so
\* it never makes a remote message-creation call, however it interleaves with the
\* webhook handler.
C4_EchoSuppressed ==
    \A t \in Tasks :
        (Started(t) /\ call[t].evt.id \in SentIDs) =>
            /\ loaded[t]
            /\ ~Made(t, "message_create")

\* ------------------------------------------------------------------------
\* C5
\* ------------------------------------------------------------------------
\* the call has come out of ensureConversation with a conversation id
Resolved(t) == conversationID[t] # 0 /\ pc[t] \in {"deliver", "upload", "done"}

\* the call is past the memory lookup of ensureConversation
PastMemoryLookup(t) ==
    \/ pc[t] \in {"convDb", "convHit", "convCreate", "convPersist", "convStore", "deliver", "upload"}
    \/ conversationID[t] # 0
    \/ Made(t, "db_conversation_get")

\* C5: sequential calls for one (tenant, chat) on one Service make exactly one
\* successful remote conversation creation; every call after the one that resolved
\* the conversation is served from the memory tier: same id, no conversation-creation
\* call, no read or write of the persistent store.
C5_SequentialCreateOnce ==
    /\ Len(cwConversations) <= 1
    /\ (\E t \in SeqTasks : Resolved(t)) => Len(cwConversations) = 1
    /\ \A u \in SeqTasks, t \in SeqTasks :
          (u < t /\ Resolved(u) /\ PastMemoryLookup(t)) =>
              /\ Resolved(t)
              /\ conversationID[t] = conversationID[u]
              /\ conversationID[t] = cwConversations[1].id
              /\ ~Made(t, "conversation_create")
              /\ ~Made(t, "db_conversation_get")
              /\ ~Made(t, "db_conversation_insert")

\* all the sequential calls have returned nil: one creation by the first, one remote
\* message per call in the one conversation
C5_Witness ==
    /\ \A t \in SeqTasks : Returned(t) /\ result[t] = "ok" /\ Resolved(t)
    /\ Made(1, "conversation_create")
    /\ Len(cwConversations) = 1
    /\ Len(cwMessages) = NumCalls
    /\ \A i \in DOMAIN cwMessages : cwMessages[i].conversationID = cwConversations[1].id

\* ------------------------------------------------------------------------
\* C6
\* ------------------------------------------------------------------------
\* call u created the conversation of its chat and its mapping is the persisted one
CreatedAndPersisted(u) ==
    /\ Made(u, "conversation_create") /\ Made(u, "db_conversation_insert")
    /\ conversationID[u] # 0
    /\ TaskRow(u) \in DOMAIN dbConversations
    /\ dbConversations[TaskRow(u)].conversationID = conversationID[u]

\* call t is the first of its process lifetime to reach the memory lookup
FirstOfEpoch(t) ==
    \A v \in SeqTasks : (v < t /\ tepoch[v] = tepoch[t]) => ~PastMemoryLookup(v)

\* C6: once a conversation was created and its mapping persisted, the first call of
\* a restarted process (empty memory tier) for the same pair makes no remote creation
\* call, resolves to the persisted conversation id, and leaves that id in the memory
\* tier, so that the next call of that process is a memory hit (no store read).
C6_PersistentHitAfterRestart ==
    \A u \in SeqTasks, t \in SeqTasks :
        (/\ u < t /\ CreatedAndPersisted(u)
         /\ Started(t) /\ tepoch[t] > tepoch[u] /\ TaskRow(t) = TaskRow(u)) =>
            /\ pc[t] \notin {"convCreate", "convPersist", "convStore"}
            /\ ~Made(t, "conversation_create") /\ ~Made(t, "db_conversation_insert")
            /\ Resolved(t) =>
                  /\ conversationID[t] = dbConversations[TaskRow(u)].conversationID
                  /\ tepoch[t] = epoch =>
                        /\ TaskKey(t) \in DOMAIN conversationCache
                        /\ conversationCache[TaskKey(t)] = conversationID[t]
                  /\ FirstOfEpoch(t) => Made(t, "db_conversation_get")
                  /\ \A v \in SeqTasks :
                        (v > t /\ tepoch[v] = tepoch[t] /\ PastMemoryLookup(v)) =>
                            /\ ~Made(v, "db_conversation_get")
                            /\ Resolved(v) /\ conversationID[v] = conversationID[t]

\* call 1 created and persisted, the process restarted, call 2 was resolved from the
\* store and call 3 from memory, all to the one remote conversation
C6_Witness ==
    /\ epoch = 1
    /\ tepoch[1] = 0 /\ CreatedAndPersisted(1)
    /\ tepoch[2] = 1 /\ Returned(2) /\ result[2] = "ok" /\ Made(2, "db_conversation_get")
    /\ ~Made(2, "conversation_create")
    /\ tepoch[3] = 1 /\ Returned(3) /\ result[3] = "ok" /\ ~Made(3, "db_conversation_get")
    /\ conversationID[2] = conversationID[1] /\ conversationID[3] = conversationID[1]
    /\ Len(cwConversations) = 1

\* ------------------------------------------------------------------------
\* C7
\* ------------------------------------------------------------------------
\* C7: ensureConversation is check-then-create without a lock: a call goes on to the
\* store lookup only on a memory miss and to the remote creation only when the store
\* has no row; at the creation step it creates a conversation for its chat whatever
\* the other calls have created or stored since its lookups, so two concurrent calls
\* can each create one.
C7_CheckThenCreate ==
    [][\A t \in Tasks :
        /\ (pc[t] = "convMem" /\ pc'[t] = "convDb") =>
              TaskKey(t) \notin DOMAIN conversationCache
        /\ (pc[t] = "convDb" /\ pc'[t] = "convCreate") =>
              TaskRow(t) \notin DOMAIN dbConversations
        /\ (pc[t] = "convCreate" /\ pc'[t] # "convCreate") =>
              \/ pc'[t] = "done" /\ result'[t] = "error"
                    /\ cwConversations' = cwConversations
              \/ /\ pc'[t] = "convPersist"
                 /\ Len(cwConversations') = Len(cwConversations) + 1
                 /\ cwConversations'[Len(cwConversations')].sourceID =
                        ConversationSourceID(call[t].evt.chat)
                 /\ conversationID'[t] = cwConversations'[Len(cwConversations')].id
      ]_vars

\* two calls for one chat have each missed both tiers and each created a remote
\* conversation: two conversations exist for the chat
C7_Witness ==
    \E t \in Tasks, u \in Tasks :
        /\ t # u /\ call[t].evt.chat = call[u].evt.chat /\ call[t].user = call[u].user
        /\ Made(t, "db_conversation_get") /\ Made(t, "conversation_create")
        /\ Made(u, "db_conversation_get") /\ Made(u, "conversation_create")
        /\ Returned(t) /\ result[t] = "ok" /\ Returned(u) /\ result[u] = "ok"
        /\ conversationID[t] # conversationID[u]
        /\ Cardinality(RemoteConversationsOf(call[t].evt.chat)) = 2

\* ------------------------------------------------------------------------
\* C8, C9, C10
\* ------------------------------------------------------------------------
Posts == SelectSeq(dlog, LAMBDA e : e.kind = "post")
Sleeps == SelectSeq(dlog, LAMBDA e : e.kind = "sleep")

\* the same for callHookFileWithHmac
FilePosts == SelectSeq(flog, LAMBDA e : e.kind = "post")
FileSleeps == SelectSeq(flog, LAMBDA e : e.kind = "sleep")

AllAttemptsFailed == \A i \in DOMAIN Posts : Posts[i].outcome # "2xx"

\* C8: when every attempt fails, a returned call has made exactly webhookRetryCount
\* POSTs if retries are enabled and exactly one POST if they are disabled, whatever
\* the configured count and whether the failures were statuses or transport errors.
C8_AttemptCount ==
    (dpc = "done" /\ AllAttemptsFailed) =>
        Len(Posts) = IF settings.retryEnabled THEN settings.retryCount ELSE 1

\* three attempts with both kinds of failure under an enabled count of three
C8_Witness ==
    /\ dpc = "done" /\ settings.retryEnabled /\ settings.retryCount = 3
    /\ Len(Posts) = 3 /\ AllAttemptsFailed
    /\ \E i \in DOMAIN Posts, j \in DOMAIN Posts :
          Posts[i].outcome = "non2xx" /\ Posts[j].outcome = "transport"

\* one attempt only with retries disabled and a larger configured count
C8_WitnessDisabled ==
    /\ dpc = "done" /\ ~settings.retryEnabled /\ settings.retryCount = 3
    /\ Len(Posts) = 1 /\ AllAttemptsFailed

RECURSIVE TwoToThe(_)
TwoToThe(n) == IF n = 0 THEN 1 ELSE 2 * TwoToThe(n - 1)

\* C9: the first attempt is not preceded by a sleep; exactly one sleep separates
\* failed attempt n from attempt n+1 and it lasts webhookRetryDelaySeconds * 2^(n-1)
\* seconds, each one twice the one before.
C9_ExponentialBackoff ==
    /\ dlog # <<>> => dlog[1].kind = "post"
    /\ \A i \in DOMAIN dlog :
          /\ dlog[i].kind = "sleep" =>
                /\ i > 1 /\ dlog[i - 1].kind = "post" /\ dlog[i - 1].outcome # "2xx"
                /\ i < Len(dlog) => dlog[i + 1].kind = "post"
          /\ (dlog[i].kind = "post" /\ i > 1) => dlog[i - 1].kind = "sleep"
    /\ Len(Sleeps) \in {Len(Posts) - 1, Len(Posts)}
    /\ Len(Posts) <= IF settings.retryEnabled THEN settings.retryCount ELSE 1
    /\ \A n \in DOMAIN Sleeps :
          /\ Sleeps[n].seconds = settings.delaySeconds * TwoToThe(n - 1)
          /\ n > 1 => Sleeps[n].seconds = 2 * Sleeps[n - 1].seconds

\* four attempts with a base delay of two seconds: sleeps of 2, 4 and 8 seconds
C9_Witness ==
    /\ dpc = "done" /\ settings.delaySeconds = 2
    /\ Len(Posts) = 4 /\ Len(Sleeps) = 3
    /\ Sleeps[1].seconds = 2 /\ Sleeps[2].seconds = 4 /\ Sleeps[3].seconds = 8

\* C10: a returned callHookWithHmac call either got a 2xx on its last attempt and
\* produced no dead-letter record, or made at least one attempt, all failed, and
\* produced exactly one record with the url, the final payload, the tenant id and the
\* last attempt's error.
C10_TwoOutcomes ==
    dpc = "done" =>
        \/ /\ Posts # <<>>
           /\ Posts[Len(Posts)].outcome = "2xx"
           /\ \A i \in 1..(Len(Posts) - 1) : Posts[i].outcome # "2xx"
           /\ deadLetters = <<>>
        \/ /\ Posts # <<>>
           /\ AllAttemptsFailed
           /\ Len(deadLetters) = 1
           /\ deadLetters[1].url = "url"
           /\ deadLetters[1].userID = U1
           /\ deadLetters[1].payload = Posts[Len(Posts)].body
           /\ deadLetters[1].error =
                 (IF Posts[Len(Posts)].outcome = "transport" THEN "transport" ELSE "status")

\* ------------------------------------------------------------------------
\* C11, C12
\* ------------------------------------------------------------------------
\* C11: when the tenant has a signing key (non-empty encrypted key), every attempt
\* of the delivery carries the x-hmac-signature header, also when the key cannot be
\* decrypted.
C11_KeyMeansSigned ==
    dreq.key # "none" =>
        \A i \in DOMAIN Posts : Posts[i].signature # ""

\* C12: when the tenant has no signing key, no attempt carries a signature header,
\* in JSON mode, in form mode and in the file variant.
C12_NoKeyNoSignature ==
    /\ (dpc # "idle" /\ dreq.key = "none") =>
           \A i \in DOMAIN Posts : Posts[i].signature = ""
    /\ (fpc # "idle" /\ freq.key = "none") =>
           \A i \in DOMAIN FilePosts : FilePosts[i].signature = ""

\* a file delivery without key has made two unsigned attempts in JSON mode
C12_Witness ==
    /\ fpc = "done" /\ freq.key = "none"
    /\ settings.format = "json"
    /\ Len(FilePosts) = 2
    /\ \A i \in DOMAIN FilePosts : FilePosts[i].signature = ""

\* ------------------------------------------------------------------------
\* Helpers of the webhook properties
\* ------------------------------------------------------------------------
HMade(h, op) == \E i \in DOMAIN hlog[h] : hlog[h][i] = op

HCount(h, op) == Cardinality({i \in DOMAIN hlog[h] : hlog[h][i] = op})

\* entry op of the request's log is followed by the failure marker
HFailed(h, op) ==
    \E i \in DOMAIN hlog[h] :
        hlog[h][i] = op /\ i < Len(hlog[h]) /\ hlog[h][i + 1] = "failed"

HDone(h) == hpc[h] = "done"

\* the request was authenticated and its body parsed
Parsed(r) == r.token = GoodToken /\ r.bodyOk

\* an agent's reply: message_created, outgoing, not a private note
IsAgentReply(p) ==
    p.event = "message_created" /\ p.messageType = "outgoing" /\ ~p.private

\* ------------------------------------------------------------------------
\* C13
\* ------------------------------------------------------------------------
\* C13: no response is written while a send is outstanding; a 200 "success" is
\* written only when every SendMessage call of the request returned without error and
\* all the messages of the request were sent; a SendMessage error ends the request
\* with a 500 and an error field, and nothing further is sent.
C13_SuccessAfterSends ==
    \A h \in Hooks :
        /\ hpc[h] \in {"send", "register"} =>
              hstatus[h] = 0 /\ hbody[h] = NoResponseBody
        /\ (HDone(h) /\ hbody[h].status = "success") =>
              /\ hstatus[h] = 200
              /\ ~HFailed(h, "send")
              /\ HCount(h, "send") = Len(SendQueue(hreq[h].payload))
              /\ HCount(h, "register") = HCount(h, "send")
        /\ HFailed(h, "send") =>
              /\ HDone(h) /\ hstatus[h] = 500
              /\ hbody[h].error # "" /\ hbody[h].status = ""
              /\ hlog[h][Len(hlog[h])] = "failed"
              /\ HCount(h, "send") = HCount(h, "register") + 1

\* both attachments of a reply were sent and registered, then success was answered
C13_Witness ==
    \E h \in Hooks :
        /\ HDone(h) /\ hstatus[h] = 200 /\ hbody[h] = SuccessBody
        /\ HCount(h, "send") = 2 /\ Len(waSent) = 2

\* ------------------------------------------------------------------------
\* C14
\* ------------------------------------------------------------------------
\* C14: when the client lookup finds no client, a client that is not logged in or
\* one that is not connected, the request ends 503 with an error field, without any
\* SendMessage call and without a dedup registration.
C14_ClientUnavailable ==
    \A h \in Hooks :
        (HMade(h, "missing") \/ HMade(h, "loggedOut") \/ HMade(h, "disconnected")) =>
            /\ HDone(h) /\ hstatus[h] = 503
            /\ hbody[h].error # "" /\ hbody[h].status = ""
            /\ hbody[h].error =
                  (IF HMade(h, "missing") THEN "whatsapp client not ready"
                   ELSE IF HMade(h, "loggedOut") THEN "whatsapp not logged in"
                   ELSE "whatsapp disconnected")
            /\ ~HMade(h, "send") /\ ~HMade(h, "register")
            /\ waSent = <<>> /\ messageDedupeCache = <<>> /\ echoes = {}

\* a reply with text for a disconnected client was answered 503
C14_Witness ==
    \E h \in Hooks :
        /\ HDone(h) /\ hstatus[h] = 503 /\ HMade(h, "disconnected")
        /\ hreq[h].payload.content # <<>>
        /\ HMade(h, "store_mapping")

\* ------------------------------------------------------------------------
\* C15
\* ------------------------------------------------------------------------
NoDestinationFields(p) == p.identifier = <<>> /\ p.phoneNumber = <<>>

NoSendNoMapping(h) ==
    /\ hlog[h] = <<>>
    /\ waSent = <<>> /\ dbConversations = <<>> /\ messageDedupeCache = <<>>

\* C15 as stated: every agent reply without identifier and phone_number is answered
\* 400 with an error field, with no send and no mapping write.
C15_NoDestinationAlways400 ==
    \A h \in Hooks :
        (/\ hpc[h] # "idle" /\ Parsed(hreq[h]) /\ IsAgentReply(hreq[h].payload)
         /\ NoDestinationFields(hreq[h].payload)) =>
            /\ HDone(h) /\ hstatus[h] = 400 /\ hbody[h].error # ""
            /\ NoSendNoMapping(h)

\* C15, amended: an agent reply without identifier and phone_number that loop
\* prevention does not catch is answered 400 with an error field; one that loop
\* prevention catches is answered 200 "ignored"; in both cases there is no send and
\* no mapping write.
C15_NoDestination400 ==
    \A h \in Hooks :
        (/\ hpc[h] # "idle" /\ Parsed(hreq[h]) /\ IsAgentReply(hreq[h].payload)
         /\ NoDestinationFields(hreq[h].payload)) =>
            /\ HDone(h) /\ NoSendNoMapping(h)
            /\ IF LeadMessageIsOwnEcho(hreq[h])
               THEN hstatus[h] = 200 /\ hbody[h].status = "ignored"
               ELSE /\ hstatus[h] = 400
                    /\ hbody[h] = ErrorBody("no destination")

\* a reply with text, a conversation id and attachments but no destination got a 400
C15_Witness ==
    \E h \in Hooks :
        /\ HDone(h) /\ hstatus[h] = 400 /\ hbody[h].error = "no destination"
        /\ NoDestinationFields(hreq[h].payload)
        /\ hreq[h].payload.content # <<>> /\ hreq[h].payload.convID > 0
        /\ hreq[h].payload.messages # <<>>
        /\ Head(hreq[h].payload.messages).attachments # <<>>

\* ------------------------------------------------------------------------
\* C16
\* ------------------------------------------------------------------------
\* C16: an authenticated, parsed webhook whose event is not message_created, whose
\* message_type is not outgoing, or that is a private note is answered 200 with
\* status "ignored", and nothing else happens: no mapping write, no client lookup, no
\* send, no dedup registration.
C16_NotAgentReplyIgnored ==
    \A h \in Hooks :
        (hpc[h] # "idle" /\ Parsed(hreq[h]) /\ ~IsAgentReply(hreq[h].payload)) =>
            /\ HDone(h) /\ hstatus[h] = 200
            /\ hbody[h].status = "ignored" /\ hbody[h].error = ""
            /\ hlog[h] = <<>>
            /\ waSent = <<>> /\ dbConversations = <<>> /\ messageDedupeCache = <<>>
            /\ cleanupLoops = 1 /\ echoes = {} /\ dedupeCache = <<>>

\* a private note with text, destination, conversation id and attachments was ignored
C16_Witness ==
    \E h \in Hooks :
        /\ HDone(h) /\ hbody[h] = IgnoredBody("private note")
        /\ hreq[h].payload.private
        /\ hreq[h].payload.content # <<>> /\ hreq[h].payload.convID > 0
        /\ hreq[h].payload.identifier # <<>>
        /\ hreq[h].payload.messages # <<>>
        /\ Head(hreq[h].payload.messages).attachments # <<>>

\* ------------------------------------------------------------------------
\* C17
\* ------------------------------------------------------------------------
\* C17: a request without token, or with a token of no tenant, is answered 401 with
\* an error field whether or not its body parses; no mapping is written and nothing
\* is sent.
C17_UnknownToken401 ==
    \A h \in Hooks :
        (hpc[h] # "idle" /\ hreq[h].token # GoodToken) =>
            /\ HDone(h) /\ hstatus[h] = 401
            /\ hbody[h] = ErrorBody(IF hreq[h].token = <<>> THEN "missing token"
                                    ELSE "invalid token")
            /\ huser[h] = <<>>
            /\ hlog[h] = <<>>
            /\ waSent = <<>> /\ dbConversations = <<>> /\ messageDedupeCache = <<>>

\* a well-formed agent reply under an unknown token was answered 401
C17_Witness ==
    \E h \in Hooks :
        /\ HDone(h) /\ hstatus[h] = 401 /\ hreq[h].token = BadToken
        /\ hreq[h].bodyOk /\ IsAgentReply(hreq[h].payload)
        /\ hreq[h].payload.content # <<>> /\ hreq[h].payload.identifier # <<>>

\* ------------------------------------------------------------------------
\* C18
\* ------------------------------------------------------------------------
\* the row StoreConversationFromWebhook leaves for the request
MappingOf(h) ==
    ConversationRow(hreq[h].payload.convID, hreq[h].payload.senderID,
                    hreq[h].payload.inboxID)

MappingStored(h) ==
    LET row == <<huser[h], RecipientJID(hreq[h].payload)>> IN
    row \in DOMAIN dbConversations /\ dbConversations[row] = MappingOf(h)

\* C18: for a request with a destination and a conversation id the mapping store is
\* the first step after validation: it precedes the client lookup and every send, so
\* whenever the store call succeeded the mapping of (tenant, destination) is present
\* from the client lookup on, in particular under every 503 and 500 response; a
\* failed store is only logged and the request goes on to the client lookup.
C18_MappingBeforeSend ==
    \A h \in Hooks :
        (hreq[h].payload.convID > 0 /\ hpc[h] \in {"client", "send", "register", "done"}
         /\ Validation(hreq[h]) = Pass) =>
            /\ hlog[h] # <<>> /\ hlog[h][1] = "store_mapping"
            /\ HCount(h, "store_mapping") = 1
            /\ ~HFailed(h, "store_mapping") => MappingStored(h)
            /\ HDone(h) => HMade(h, "client_lookup")
            /\ (HDone(h) /\ hstatus[h] \in {500, 503} /\ ~HFailed(h, "store_mapping"))
                  => MappingStored(h)

\* the send failed with a 500 and the mapping of the conversation is in the store
C18_Witness ==
    \E h \in Hooks :
        /\ HDone(h) /\ hstatus[h] = 500
        /\ hreq[h].payload.convID > 0
        /\ MappingStored(h)
        /\ hlog[h] = <<"store_mapping", "client_lookup", "ready", "send", "failed">>

\* ------------------------------------------------------------------------
\* C19
\* ------------------------------------------------------------------------
RemoteOps == {"contact_search", "contact_create", "conversation_create", "message_create"}

\* the calls to the remote API the call has made, in order
RemoteCalls(t) == SelectSeq(calls[t], LAMBDA op : op \in RemoteOps)

FirstContactOrder ==
    <<"contact_search", "contact_create", "conversation_create", "message_create">>

\* the text of a text event
EventText(m) == IF m.conversation # <<>> THEN m.conversation ELSE m.extendedText.caption

\* C19: first contact. The remote calls of the call are always a prefix of
\* contact-search, contact-create, conversation-create, message-create; when no call
\* failed and the call has returned, it returned nil after exactly these four, the
\* remote side has the new contact, one conversation for it in the tenant's inbox and
\* one 'incoming' message with the event text, and the mapping of (tenant, chat) to
\* that conversation is persisted and cached.
C19_FirstContact ==
    \A t \in {1} :
        /\ FirstContactScenario(t) =>
              RemoteCalls(t) = SubSeq(FirstContactOrder, 1, Len(RemoteCalls(t)))
        /\ (FirstContactScenario(t) /\ Returned(t) /\ ~loaded[t] /\ ~Made(t, "failed")) =>
              /\ result[t] = "ok"
              /\ RemoteCalls(t) = FirstContactOrder
              /\ calls[t] = <<"db_config_get",
                              "contact_search", "contact_create", "db_conversation_get",
                              "conversation_create", "db_conversation_insert",
                              "message_create">>
              /\ cwContacts = {[id |-> contactID[t], phone |-> <<"+">> \o Phone1,
                                identifier |-> Chat1]}
              /\ Len(cwConversations) = 1
              /\ cwConversations[1].contactID = contactID[t]
              /\ cwConversations[1].inboxID = 1
              /\ cwConversations[1].id = conversationID[t]
              /\ Len(cwMessages) = 1
              /\ cwMessages[1].conversationID = conversationID[t]
              /\ cwMessages[1].type = "incoming"
              /\ cwMessages[1].content = EventText(call[t].evt.msg)
              /\ DOMAIN dbConversations = {<<U1, Chat1>>}
              /\ dbConversations[<<U1, Chat1>>].conversationID = conversationID[t]
              /\ dbConversations[<<U1, Chat1>>].contactID = contactID[t]
              /\ dbConversations[<<U1, Chat1>>].inboxID = 1

\* an extended-text event went through the four calls and its text was delivered
C19_Witness ==
    /\ Returned(1) /\ result[1] = "ok" /\ ~Made(1, "failed")
    /\ call[1].evt.msg.conversation = <<>>
    /\ RemoteCalls(1) = FirstContactOrder
    /\ Len(cwMessages) = 1 /\ cwMessages[1].content = <<"Ext">>
    /\ <<U1, Chat1>> \in DOMAIN dbConversations

\* ------------------------------------------------------------------------
\* C20
\* ------------------------------------------------------------------------
\* C20: a failed call to the remote API (contact search, contact create,
\* conversation create, message create) is the last thing its HandleIncomingMessage
\* call does: the call returns an error and makes no further call.
C20_RemoteFailureEndsCall ==
    \A t \in Tasks, i \in 1..12 :
        (/\ i < Len(calls[t]) /\ calls[t][i] \in RemoteOps
         /\ calls[t][i + 1] = "failed") =>
            /\ Returned(t) /\ result[t] = "error"
            /\ i + 1 = Len(calls[t])


\* ------------------------------------------------------------------------
\* C22
\* ------------------------------------------------------------------------
\* the tenant of call t has no chatwoot_config row, or a disabled one
BridgeOff(t) == ~config[call[t].user].exists \/ ~config[call[t].user].enabled

\* C22: for a tenant without a config row, or with a disabled one, a call makes no
\* remote API call and no ConversationMapping write whatever the event, nothing
\* appears on the remote side or in the mapping table (which is as it was at the
\* start), and the call returns nil unless the config query itself failed.
C22_BridgeOffNoCalls ==
    \A t \in Tasks :
        (Started(t) /\ BridgeOff(t)) =>
            /\ RemoteCalls(t) = <<>>
            /\ ~Made(t, "db_conversation_insert")
            /\ cwConversations = <<>> /\ cwMessages = <<>>
            /\ (NoMapping \/ KnownMapping)
            /\ Returned(t) => result[t] = IF Made(t, "failed") THEN "error" ELSE "ok"

\* a text event for a tenant whose config is disabled has returned nil after the
\* config query
C22_Witness ==
    /\ Returned(1) /\ result[1] = "ok"
    /\ config[U1].exists /\ ~config[U1].enabled
    /\ call[1].evt.msg.conversation # <<>>
    /\ calls[1] = <<"db_config_get">>


\* ------------------------------------------------------------------------
\* C25
\* ------------------------------------------------------------------------
\* C25: an event that passes the noise filter and reaches content delivery (the
\* contact and the conversation are ensured) is forwarded as a remote message: a
\* call that returned nil for it has made a remote message-creation call.
C25_ContentForwarded ==
    \A t \in Tasks :
        (/\ Returned(t) /\ result[t] = "ok"
         /\ ~loaded[t] /\ ~shouldSkipMessage(call[t].evt.msg)
         /\ contactID[t] # 0 /\ conversationID[t] # 0) =>
            Made(t, "message_create")


\* ------------------------------------------------------------------------
\* C26
\* ------------------------------------------------------------------------
\* the INSERT of the mapping made by call t failed
PersistFailed(t) ==
    \E i \in 1..12 :
        /\ i < Len(calls[t])
        /\ calls[t][i] = "db_conversation_insert" /\ calls[t][i + 1] = "failed"

\* the last call made by t is the failed INSERT
EndedOnPersistFailure(t) ==
    /\ Len(calls[t]) >= 2
    /\ calls[t][Len(calls[t]) - 1] = "db_conversation_insert"
    /\ calls[t][Len(calls[t])] = "failed"

\* C26: when the remote creation succeeded and the INSERT of the mapping failed,
\* ensureConversation keeps the new conversation id and returns no error (the call
\* goes on to content delivery), the id is stored in the memory tier, and every later
\* call for the pair on the same Service resolves to that id from the memory tier,
\* with no other remote creation and no store access.
C26_PersistFailureTolerated ==
    \A u \in SeqTasks :
        PersistFailed(u) =>
            /\ Made(u, "conversation_create")
            /\ conversationID[u] = cwConversations[1].id
            /\ Returned(u) => ~EndedOnPersistFailure(u)
            /\ pc[u] \in {"deliver", "upload", "done"} =>
                   /\ TaskKey(u) \in DOMAIN conversationCache
                   /\ conversationCache[TaskKey(u)] = conversationID[u]
            /\ \A t \in SeqTasks :
                   (u < t /\ PastMemoryLookup(t)) =>
                       /\ conversationID[t] = conversationID[u]
                       /\ ~Made(t, "conversation_create")
                       /\ ~Made(t, "db_conversation_get")
                       /\ Len(cwConversations) = 1

\* the first call created the conversation remotely, failed to persist the mapping
\* and returned nil; the next call returned nil with the same id and no creation,
\* while the mapping table is still empty
C26_Witness ==
    /\ PersistFailed(1) /\ Returned(1) /\ result[1] = "ok"
    /\ Returned(2) /\ result[2] = "ok"
    /\ conversationID[2] = conversationID[1] /\ conversationID[1] # 0
    /\ ~Made(2, "conversation_create")
    /\ DOMAIN dbConversations = {}


\* ------------------------------------------------------------------------
\* C21, C23, C24: the dedup window
\* ------------------------------------------------------------------------
SameId(u, t) == call[u].evt.id = call[t].evt.id

\* call u recorded its message id in the dedupe cache (its LoadOrStore stored)
Recorded(u) == Started(u) /\ ~loaded[u]

\* call t was treated as already processed
SkippedAsDuplicate(t) ==
    loaded[t] /\ Returned(t) /\ result[t] = "ok" /\ calls[t] = <<>>

\* the last call made by t failed
EndsFailed(t) == Len(calls[t]) >= 1 /\ calls[t][Len(calls[t])] = "failed"

\* C21: after a call has failed for a message id, every redelivery of the id that
\* arrives less than 30 minutes after the failed call recorded it returns nil and
\* makes no call at all; among deliveries of an id that lie within 30 minutes of the
\* one that recorded it, at most one reaches the remote message-creation API, and it
\* does so once.
C21_FailedNotRetried ==
    \A u \in SeqTasks, t \in SeqTasks :
        (/\ u < t /\ Started(t) /\ SameId(u, t)
         /\ Recorded(u) /\ seenAt[t] - seenAt[u] < DedupWindowMinutes) =>
            /\ SkippedAsDuplicate(t)
            /\ RemoteCalls(t) = <<>>
            /\ CallCount(u, "message_create") <= 1

\* the first delivery failed at the message step; the id was redelivered 25 minutes
\* later, after two cleanup passes, and skipped
C21_Witness ==
    /\ Returned(1) /\ result[1] = "error"
    /\ Made(1, "message_create") /\ EndsFailed(1)
    /\ seenAt[2] - seenAt[1] = DedupWindowMinutes - ClockStepMinutes
    /\ lastPass >= seenAt[1] + 2 * CleanupIntervalMinutes
    /\ SkippedAsDuplicate(2)
    /\ cwMessages = <<>>


\* call t makes its dedup check in this step
ChecksDedup(t) == pc[t] = "idle" /\ pc'[t] # "idle"

\* C23: an entry of the dedupe cache recorded less than 30 minutes ago is kept, with
\* its time, by every step, cleanup passes included; an entry disappears only in the
\* visit a cleanup pass makes to its key, and only when it was older than 30 minutes
\* at the time the pass took; a pass starts on a tick of the 10-minute ticker, at
\* least one interval after the tick answered before, and when it ends no entry that
\* was older than 30 minutes at its start is left; and a call that carries an id
\* whose entry is less than 30 minutes old returns nil at once as already processed,
\* with no call.
C23_RecentEntryKept ==
    [][/\ \A id \in DOMAIN dedupeCache :
          LET ts == dedupeCache[id] IN
          /\ now' - ts < DedupWindowMinutes =>
                 id \in DOMAIN dedupeCache' /\ dedupeCache'[id] = ts
          /\ id \notin DOMAIN dedupeCache' =>
                 /\ id \in passTodo /\ passTodo' = passTodo \ {id}
                 /\ passAt - ts > DedupWindowMinutes
          /\ \A t \in SeqTasks :
                 (/\ ChecksDedup(t) /\ call'[t].evt.id = id
                  /\ now - ts < DedupWindowMinutes) =>
                     /\ loaded'[t] /\ pc'[t] = "done" /\ result'[t] = "ok"
                     /\ calls'[t] = <<>>
                     /\ UNCHANGED <<cwContacts, cwConversations, cwMessages>>
       /\ lastPass' # lastPass =>
              /\ lastPass' >= lastPass + CleanupIntervalMinutes
              /\ (lastPass' - tickerStart) % CleanupIntervalMinutes = 0
              /\ lastPass' <= now
              /\ passTodo' # {} => passAt' = now
       /\ (passTodo' = {} /\ (passTodo # {} \/ lastPass' # lastPass)) =>
              \A id \in DOMAIN dedupeCache' :
                  (IF passTodo # {} THEN passAt ELSE now) - dedupeCache'[id]
                      <= DedupWindowMinutes
      ]_vars

\* an entry recorded 25 minutes ago has survived the cleanup passes in between, and
\* a call carrying its id has just been skipped
C23_Witness ==
    /\ M1 \in DOMAIN dedupeCache
    /\ now - dedupeCache[M1] = DedupWindowMinutes - ClockStepMinutes
    /\ lastPass - dedupeCache[M1] >= 2 * CleanupIntervalMinutes
    /\ \E t \in SeqTasks : SkippedAsDuplicate(t) /\ seenAt[t] = now /\ call[t].evt.id = M1

\* C24: a call that carries an id recorded more than 30 minutes earlier is not
\* skipped as a duplicate: it is processed again.
C24_OldEntryReprocessed ==
    \A u \in SeqTasks, t \in SeqTasks :
        (/\ u < t /\ Started(t) /\ SameId(u, t) /\ Recorded(u)
         /\ \A v \in SeqTasks : (u < v /\ v < t) => ~Recorded(v)
         /\ seenAt[t] - seenAt[u] > DedupWindowMinutes) =>
            ~loaded[t]


\* ------------------------------------------------------------------------
\* C27
\* ------------------------------------------------------------------------
\* C27: no response of the configuration surface carries the stored remote API token
\* in full: the token field of a GetChatwootConfig response differs from the stored
\* token, and the responses of SetChatwootConfig and DeleteChatwootConfig have no
\* token field.
C27_TokenNeverInFull ==
    /\ (apiResp.op = "get" /\ apiResp.status = 200) =>
           apiResp.hasToken /\ apiResp.token # config[U1].token
    /\ apiResp.op \in {"set", "delete"} => ~apiResp.hasToken


\* ------------------------------------------------------------------------
\* C28
\* ------------------------------------------------------------------------
\* C28: in JSON mode the body of every attempt of callHookWithHmac has the field
\* userID, whether or not the payload has a parsable jsonData entry, and has the
\* field instanceName exactly when the payload supplies it.
C28_UserIdInEveryJsonBody ==
    settings.format = "json" =>
        \A i \in DOMAIN Posts :
            /\ "userID" \in Posts[i].body.fields
            /\ "instanceName" \in Posts[i].body.fields <=> dreq.payload.instanceName

\* ------------------------------------------------------------------------
\* C29
\* ------------------------------------------------------------------------
\* the outcomes of the attempts of a log, in order
OutcomesOf(posts) == [i \in DOMAIN posts |-> posts[i].outcome]

\* the lengths of the sleeps of a log, in order
SecondsOf(sleeps) == [i \in DOMAIN sleeps |-> sleeps[i].seconds]

DataDeadLetters == SelectSeq(deadLetters, LAMBDA d : d.filePath = "")
FileDeadLetters == SelectSeq(deadLetters, LAMBDA d : d.filePath # "")

\* C29: under the same retry settings and the same outcomes of the attempts, a
\* returned callHookFileWithHmac call has made as many attempts as the returned
\* callHookWithHmac call, with the same sleeps between them, and has produced a
\* dead-letter record exactly when that call did, with the same error; the record of
\* the file variant has the file path, the other has none; and the file variant
\* returns an error exactly when it produced a record.
C29_FileVariantEquivalent ==
    /\ (dpc = "done" /\ fpc = "done") =>
           /\ OutcomesOf(FilePosts) = OutcomesOf(Posts)
           /\ SecondsOf(FileSleeps) = SecondsOf(Sleeps)
           /\ Len(FileDeadLetters) = Len(DataDeadLetters)
           /\ FileDeadLetters # <<>> =>
                  FileDeadLetters[1].error = DataDeadLetters[1].error
    /\ fpc = "done" =>
           /\ Len(FileDeadLetters) <= 1
           /\ fret = "error" <=> FileDeadLetters # <<>>
           /\ fret = "nil" <=> FileDeadLetters = <<>>
           /\ FileDeadLetters # <<>> =>
                  /\ FileDeadLetters[1].filePath = "file"
                  /\ "file" \in FileDeadLetters[1].payload.fields
    /\ \A i \in DOMAIN DataDeadLetters : DataDeadLetters[i].filePath = ""

\* both calls made three attempts, a transport error, a status and a status, slept
\* 2 and 4 seconds, and dead-lettered; the file call returned an error
C29_Witness ==
    /\ dpc = "done" /\ fpc = "done"
    /\ settings.retryEnabled /\ settings.retryCount = 3 /\ settings.delaySeconds = 2
    /\ OutcomesOf(Posts) = <<"transport", "non2xx", "non2xx">>
    /\ OutcomesOf(FilePosts) = OutcomesOf(Posts)
    /\ SecondsOf(FileSleeps) = <<2, 4>>
    /\ Len(FileDeadLetters) = 1 /\ Len(DataDeadLetters) = 1
    /\ fret = "error"

\* ------------------------------------------------------------------------
\* C30
\* ------------------------------------------------------------------------
\* the results of PublishToRabbit that are errors
PublishErrors == {"declare_failed", "publish_failed"}

\* the PublishToRabbit calls that caller c has returned from
ReturnedPublishes(c) == SelectSeq(plog, LAMBDA e : e.caller = c)

\* SpecHandOff: a callHookWithHmac and a callHookFileWithHmac call whose attempt
\* may fail, running side by side with each other and with the connection monitor
\* of a publisher that InitRabbitMQ left unconfigured or connected
HandOffSettings ==
    {cfg \in SettingsValues : /\ ~cfg.retryEnabled /\ cfg.retryCount = 0
                              /\ cfg.delaySeconds = 0 /\ cfg.format = "json"}

InitHandOff ==
    /\ InitService
    /\ NoMapping
    /\ InitTasks
    /\ InitHooks
    /\ InitCalls
    /\ PublisherUnconfigured \/ PublisherConnected
    /\ InitSurface
    /\ cwContacts = {}
    /\ config = [u \in {U1} |-> NoConfig]
    /\ settings \in HandOffSettings

HandOffRequests == {r \in EquivRequests : r.key = "good"}

NextHandOff ==
    \/ callHookWithHmac(HandOffRequests, Outcomes)
    \/ callHookFileWithHmac(HandOffRequests, Outcomes)
    \/ \E m \in Monitors : handleConnectionErrors(m)

\* the goroutine of a delivery call is scheduled until the call returns
SpecHandOff ==
    /\ InitHandOff /\ [][NextHandOff]_vars
    /\ WF_vars(PublishDataErrorToQueue) /\ WF_vars(PublishFileErrorToQueue)

\* the hand-offs made so far, at every moment of them
HandOffsSound ==
    /\ \A i \in DOMAIN plog :
          /\ ~plog[i].enabled <=> plog[i].result = "noop"
          /\ plog[i].result \in {"noop", "published"} \cup PublishErrors
    /\ Len(errorQueue) = Cardinality({i \in DOMAIN plog : plog[i].result = "published"})
    /\ \A i \in DOMAIN errorQueue : \E j \in DOMAIN deadLetters :
          errorQueue[i] = deadLetters[j]
    /\ Len(ReturnedPublishes("data")) <= Len(DataDeadLetters)
    /\ Len(ReturnedPublishes("file")) <= Len(FileDeadLetters)
    /\ dpc = "handoff" => Len(ReturnedPublishes("data")) < Len(DataDeadLetters)
    /\ fpc = "handoff" => Len(ReturnedPublishes("file")) < Len(FileDeadLetters)
    /\ dpc = "done" =>
          /\ dret = "void"
          /\ Len(ReturnedPublishes("data")) = Len(DataDeadLetters)
    /\ fpc = "done" =>
          /\ Len(ReturnedPublishes("file")) = Len(FileDeadLetters)
          /\ fret = "error" <=> FileDeadLetters # <<>>
          /\ fret = "nil" <=> FileDeadLetters = <<>>

\* C30: every hand-off of a dead-letter record is one PublishToRabbit call, and the
\* delivery call returns after it with the same return value whatever the publisher
\* did: when rabbitEnabled is read false the call is a no-op (nothing reaches the
\* queue); a QueueDeclare or Publish error publishes nothing and is not passed on;
\* only a successful publish puts the record on the queue; and a hand-off that has
\* begun ends with the delivery call returned.
C30_HandOffNeverRaises ==
    /\ []HandOffsSound
    /\ (dpc = "handoff") ~> (dpc = "done")
    /\ (fpc = "handoff") ~> (fpc = "done")

\* a data call handed its record over while the queue was disabled and returned; a
\* file call handed its record over when QueueDeclare failed and returned its
\* delivery error; nothing reached the queue
C30_Witness ==
    /\ dpc = "done" /\ fpc = "done"
    /\ Len(plog) = 2
    /\ \E i \in {1, 2} :
          /\ plog[i].caller = "data" /\ plog[i].result = "noop"
          /\ plog[3 - i].caller = "file" /\ plog[3 - i].result = "declare_failed"
    /\ errorQueue = <<>>
    /\ dret = "void" /\ fret = "error"

\* ------------------------------------------------------------------------
\* C31
\* ------------------------------------------------------------------------
\* the attachments of the triggering message, <<>> when it carries none
TriggerAttachments(p) ==
    LET i == AttachmentMessageFrom(p, 1) IN
    IF i = 0 THEN <<>> ELSE p.messages[i].attachments

\* the texts of the WhatsApp messages sent so far, in order
SentTexts == [k \in 1..Len(waSent) |-> waSent[k].text]

\* C31: a request answered "success" whose triggering message carries attachments
\* sent exactly one WhatsApp message per attachment, each captioned with the text
\* content when it is non-empty and with the attachment's data URL otherwise; with
\* no attachments and a non-empty text content, the content was sent verbatim as
\* the single message.
C31_CaptionIsContent ==
    \A h \in Hooks :
        (HDone(h) /\ hbody[h] = SuccessBody) =>
            LET p == hreq[h].payload
                A == TriggerAttachments(p)
            IN  IF A # <<>>
                THEN SentTexts = [k \in 1..Len(A) |->
                                    IF p.content # <<>> THEN p.content ELSE A[k]]
                ELSE p.content # <<>> => SentTexts = <<p.content>>


\* ------------------------------------------------------------------------
\* C37
\* ------------------------------------------------------------------------
\* C37: a request answered 200 with status "success" made at least one
\* SendMessage call, and a call of it succeeded.
C37_SuccessMeansSent ==
    \A h \in Hooks :
        (HDone(h) /\ hstatus[h] = 200 /\ hbody[h].status = "success") =>
            /\ HCount(h, "send") >= 1
            /\ Len(waSent) >= 1

\* ------------------------------------------------------------------------
\* C40
\* ------------------------------------------------------------------------
\* C40: a served webhook request leaves no more cleanupDedupeCache loops running
\* than there were before it: the loop of the process's own Service only.
C40_CleanupLoopsBounded ==
    \A h \in Hooks : HDone(h) => cleanupLoops = 1


\* ------------------------------------------------------------------------
\* C38
\* ------------------------------------------------------------------------
\* C38: whenever the conversation cache of the Service and the persistent table
\* both hold an entry for the same (tenant, chat) key, the two name the same remote
\* conversation id.
C38_CacheAgreesWithTable ==
    \A k \in DOMAIN dbConversations :
        CacheKey(k[1], k[2]) \in DOMAIN conversationCache =>
            conversationCache[CacheKey(k[1], k[2])] = dbConversations[k].conversationID


\* ------------------------------------------------------------------------
\* SpecReuse: a webhook request for a chat, then an inbound event of a chat
\* ------------------------------------------------------------------------
Group1 == NewJID(<<"1", "2", "0">>, GroupServer)

\* an event of a group chat: Info.Chat is the group, Info.Sender the participant
GroupEvent(id, group, participant, msg) ==
    [Event(id, group, FALSE, msg) EXCEPT !.sender = participant, !.isGroup = TRUE]

\* an agent's reply whose conversation.meta.sender has this identifier and phone
ReplyTo(identifier, phoneNumber) ==
    [AgentReply(1, <<"Hi">>, <<>>) EXCEPT !.payload.identifier = identifier,
                                         !.payload.phoneNumber = phoneNumber]

ReuseRequests ==
    {ReplyTo(Chat1, <<>>), ReplyTo(Phone1, <<>>), ReplyTo(<<>>, <<"+">> \o Phone1),
     ReplyTo(Group1, <<>>)}

ReuseCalls ==
    {Call(U1, Event(M1, Chat1, FALSE, TextMessage(<<"Hello">>))),
     Call(U1, GroupEvent(M1, Group1, Chat1, TextMessage(<<"Hello">>)))}

NextReuse ==
    \/ HandleChatwootWebhook(1, ReuseRequests)
    \/ hpc[1] = "done" /\ HandleIncomingMessage(1, ReuseCalls)

SpecReuse == Init /\ [][NextReuse]_vars

\* ------------------------------------------------------------------------
\* C39
\* ------------------------------------------------------------------------
HasSuffix(s, p) == Len(s) >= Len(p) /\ SubSeq(s, Len(s) - Len(p) + 1, Len(s)) = p

\* the chat a webhook payload addresses: the identifier when it is an address,
\* else the user address of the number
ChatOf(p) ==
    IF IndexFrom(p.identifier, "@", 1) <= Len(p.identifier)
    THEN p.identifier
    ELSE NewJID(Destination(p), DefaultUserServer)

\* request h stored its conversation mapping
StoredMapping(h) == HCount(h, "store_mapping") = 1 /\ ~HFailed(h, "store_mapping")

\* C39: once a webhook request has stored its mapping, the table holds it under the
\* (tenant, chat) key the inbound path looks up for events of that chat, and an
\* inbound call for an event of that chat makes no conversation-creation call; for
\* direct chats and for group conversations.
C39_WebhookKeyIsInboundKey ==
    \A h \in Hooks :
        StoredMapping(h) =>
            /\ <<huser[h], ChatOf(hreq[h].payload)>> \in DOMAIN dbConversations
            /\ \A t \in Tasks :
                (call[t] # NoCall /\ call[t].user = huser[h]
                   /\ call[t].evt.chat = ChatOf(hreq[h].payload))
                    => ~Made(t, "conversation_create")

\* the same, for the destinations that are direct chats
C39_DirectChatsOnly ==
    \A h \in Hooks :
        (StoredMapping(h) /\ ~HasSuffix(ChatOf(hreq[h].payload), GroupServer)) =>
            /\ <<huser[h], ChatOf(hreq[h].payload)>> \in DOMAIN dbConversations
            /\ \A t \in Tasks :
                (call[t] # NoCall /\ call[t].user = huser[h]
                   /\ call[t].evt.chat = ChatOf(hreq[h].payload))
                    => ~Made(t, "conversation_create")


\* ------------------------------------------------------------------------
\* C33
\* ------------------------------------------------------------------------
\* the tenant's stored config has an inbox id
StoredInbox == config[U1].exists /\ config[U1].inboxID # 0

\* C33: CreateInbox is called only while the tenant's stored config has no inbox
\* id (no config exists, or its inbox id is unset), and a SetChatwootConfig call that
\* saves while the stored config has an inbox id leaves it with that inbox id.
C33_InboxCreatedOnce ==
    [][/\ inboxLog' # inboxLog => ~StoredInbox
       /\ \A s \in Setters :
             (/\ cpc[s] = "save" /\ cpc'[s] = "idle" /\ apiResp'.status = 200
              /\ StoredInbox) =>
                 config'[U1].exists /\ config'[U1].inboxID = config[U1].inboxID]_vars

\* a request goes on to CreateInbox only when its own read found no config or no
\* inbox id
C33_FoundMeansNoCreate ==
    \A s \in Setters : cpc[s] = "inbox" => (~cexists[s] \/ cinbox[s] = 0)

\* SpecSetRace: two SetChatwootConfig requests of one tenant side by side
RaceRequests ==
    {req \in SetRequests : req.form = "complete" /\ req.token = <<"a">> /\ req.enabled}

NextSetRace == \E s \in Setters : SetChatwootConfig(s, RaceRequests)

SpecSetRace == InitWith({NoConfig}) /\ [][NextSetRace]_vars

\* ------------------------------------------------------------------------
\* SpecRabbit: InitRabbitMQ, then unexpected closes and reconnections, with
\* PublishToRabbit calls in between
\* ------------------------------------------------------------------------
InitRabbit ==
    /\ InitService
    /\ NoMapping
    /\ InitTasks
    /\ InitHooks
    /\ InitDelivery
    /\ InitSurface
    /\ cwContacts = {}
    /\ config = [u \in {U1} |-> NoConfig]
    /\ settings = DefaultSettings
    /\ rabbitEnabled = FALSE
    /\ rabbitURL \in BOOLEAN

NextRabbit ==
    \/ InitRabbitMQ
    \/ \E m \in Monitors : handleConnectionErrors(m)
    \/ PublishToRabbitCall("direct")

\* InitRabbitMQ runs in the main goroutine and each of its calls returns
SpecRabbit == InitRabbit /\ [][NextRabbit]_vars /\ WF_vars(InitRabbitMQ)


\* ------------------------------------------------------------------------
\* C35
\* ------------------------------------------------------------------------
\* the connection attempts of a log
AttemptsOf(log) == SelectSeq(log, LAMBDA e : e.op = "attempt")

\* goroutines started so far
StartedMonitors == {m \in Monitors : mpc[m] # "unborn"}

\* the log is attempts with one retryInterval sleep between consecutive ones
AttemptsSeparated(log) ==
    \A i \in DOMAIN log :
        IF i % 2 = 1 THEN log[i].op = "attempt" ELSE log[i] = RetrySleep

\* the call has returned and no close has been notified since
JustInitialized == rpc = "done" /\ closes = 0

C35_Attempts ==
    /\ ~rabbitURL => rlog = <<>>
    /\ Len(AttemptsOf(rlog)) <= rabbitMaxRetries
    /\ AttemptsSeparated(rlog)
    /\ \A i \in DOMAIN rlog : (rlog[i].op = "attempt" /\ rlog[i].ok) => i = Len(rlog)

C35_Outcome ==
    JustInitialized =>
        /\ rabbitEnabled <=> (rlog # <<>> /\ rlog[Len(rlog)].ok)
        /\ Cardinality(StartedMonitors) = IF rabbitEnabled THEN 1 ELSE 0
        /\ rlog # <<>> => rlog[Len(rlog)].op = "attempt"

\* C35: InitRabbitMQ makes no connection attempt when RABBITMQ_URL is unset and at
\* most 10 otherwise, consecutive attempts separated by one sleep of the retry
\* interval; it always returns; when it returns rabbitEnabled is true exactly when
\* its last attempt succeeded in dialing and in opening a channel, in which case
\* exactly one monitor has been started (none otherwise), and no attempt follows a
\* successful one.
C35_InitTerminates ==
    /\ [](C35_Attempts /\ C35_Outcome)
    /\ <>(rpc = "done")

\* nine attempts failed, each followed by a sleep, and the tenth succeeded: publishing
\* is enabled and one monitor has been started
C35_Witness ==
    /\ JustInitialized /\ rabbitURL
    /\ Len(AttemptsOf(rlog)) = rabbitMaxRetries
    /\ Len(rlog) = 2 * rabbitMaxRetries - 1
    /\ rabbitEnabled /\ Cardinality(StartedMonitors) = 1

\* ------------------------------------------------------------------------
\* C36
\* ------------------------------------------------------------------------
\* monitor m has seen its connection closed and has not reconnected: it is in the
\* reconnection loop, or its notification channel ended without an error and it
\* returned
SawClose(m) == mpc[m] \in {"reconnecting", "returned"}

\* C36: in every state, rabbitEnabled implies that rabbitChannel is not nil, and no
\* PublishToRabbit call has dereferenced a nil channel; after a monitor has seen its
\* connection closed rabbitEnabled is false until a reconnection succeeds; at most
\* one monitor runs; and once a monitor has given up after 10 failed attempts,
\* rabbitEnabled is false and no monitor runs.
C36_PublisherStates ==
    /\ rabbitEnabled => rabbitChannel # 0
    /\ 0 \notin usedChannels
    /\ \A m \in Monitors : SawClose(m) => ~rabbitEnabled
    /\ Cardinality(RunningMonitors) <= 1
    /\ \A m \in Monitors :
        mpc[m] = "gaveUp" =>
            /\ mattempt[m] = rabbitMaxRetries
            /\ ~rabbitEnabled
            /\ RunningMonitors = {}

\* the same for the closes that are notified with an error: the channel is never nil
\* when enabled or used, the publisher is disabled during the reconnection loop and
\* after it gave up, and at most one monitor runs
C36_NotifiedCloses ==
    /\ rabbitEnabled => rabbitChannel # 0
    /\ 0 \notin usedChannels
    /\ \A m \in Monitors : mpc[m] = "reconnecting" => ~rabbitEnabled
    /\ Cardinality(RunningMonitors) <= 1
    /\ \A m \in Monitors :
        mpc[m] = "gaveUp" =>
            /\ mattempt[m] = rabbitMaxRetries
            /\ ~rabbitEnabled
            /\ RunningMonitors = {}

\* a reconnection succeeded, the next close was followed by 10 failed attempts, and a
\* PublishToRabbit call used the channel in between
C36_NotifiedWitness ==
    /\ closes = 2
    /\ \E m \in Monitors : mpc[m] = "gaveUp" /\ mattempt[m] = rabbitMaxRetries
    /\ \E m \in Monitors : mpc[m] = "ended"
    /\ usedChannels # {}


\* ------------------------------------------------------------------------
\* SpecStdio: request lines of any shape read one after the other, any reply of the
\* wrapped handler
\* ------------------------------------------------------------------------
NextStdio == Stdio_Handle(RequestLines, Recorders)

SpecStdio == InitWith({NoConfig}) /\ [][NextStdio]_vars

\* ------------------------------------------------------------------------
\* C32
\* ------------------------------------------------------------------------
Answered == sout # NoStdioResponse

\* the id is a string or a number as JSON-RPC ids are written
StringOrNumber(j) ==
    j.kind = "string" \/ (j.kind = "number" /\ j.whole /\ j.num >= 0)

\* an error response with id null and no result
NullIdError == sout.id = JsonNull /\ sout.hasError /\ ~sout.hasResult

\* C32: every response carries jsonrpc "2.0"; the response to a well-formed line
\* whose id is a string or a number (0 included) carries that id, of the same type
\* and value; the response to a line that cannot be parsed or has no id is an error
\* with id null and no result; for an id of another kind the response carries the id
\* unchanged or is that error.
C32_IdEchoed ==
    Answered =>
        /\ sout.jsonrpc = "2.0"
        /\ IF ~sline.wellFormed \/ sline.id.kind = "absent" THEN NullIdError
           ELSE IF StringOrNumber(sline.id) THEN sout.id = sline.id
           ELSE sout.id = sline.id \/ NullIdError

\* ------------------------------------------------------------------------
\* C34
\* ------------------------------------------------------------------------
Is2xx(status) == status >= 200 /\ status < 300

\* C34: the response to a request that reached a wrapped handler has exactly one of
\* result and error; it is an error, with the HTTP status as code, exactly when the
\* status is not 2xx, whatever the shape of the body.
C34_StatusDecides ==
    (Answered /\ Routed(sline)) =>
        /\ sout.hasError # sout.hasResult
        /\ sout.hasError <=> ~Is2xx(sreply.status)
        /\ sout.hasError => sout.code = sreply.status

\* the same, for the bodies that are no JSON object
C34_NonObjectBodies ==
    (Answered /\ Routed(sline) /\ ~IsMap(sreply.body)) =>
        /\ sout.hasError # sout.hasResult
        /\ sout.hasError <=> ~Is2xx(sreply.status)
        /\ sout.hasError => sout.code = sreply.status

\* every response has exactly one of result and error, and an error of a wrapped
\* handler carries the HTTP status
C34_OneOfResultAndError ==
    Answered =>
        /\ sout.hasError # sout.hasResult
        /\ (Routed(sline) /\ sout.hasError) => sout.code = sreply.status

====
